---- MODULE Spec2Model ----
(***************************************************************************)
(* Verification model of miniquad's GPU performance layer.                 *)
(*                                                                         *)
(* Part 1: graphics/buffer_pool.rs (BufferPool).                           *)
(*                                                                         *)
(* The pool is modelled as a "world" record w holding the BufferPool       *)
(* fields (pools, active_buffers, stats), the native layer's set of live   *)
(* buffer names (gl_buffers), and the outcome of the last call (ret, the   *)
(* Result it returned, and native, the bag of native GL calls it issued).  *)
(* Every pool method is an operator from world to world; every action      *)
(* applies one method to the current world.                                *)
(***************************************************************************)
EXTENDS Integers, Sequences, FiniteSets, Bags, TLC

VARIABLES
    pools,          \* BufferPool.pools: PoolKey -> Vec<PooledBuffer> (keys present in the map)
    active_buffers, \* BufferPool.active_buffers: GLuint -> PooledBuffer
    stats,          \* BufferPool.stats: BufferPoolStats
    gl_buffers,     \* native layer: buffer names generated and not yet deleted
    now,            \* std::time::Instant::now(), in seconds
    caller,         \* the client's position: what its latest acquire asked for and got
    op,             \* the last call made and its arguments
    ret,            \* what the last call returned
    native,         \* bag of the native GL calls the last call issued
    commands,           \* CommandBuffer.commands: Vec<Command>
    batch_groups,       \* CommandBuffer.batch_groups: Vec<BatchGroup>
    batch_stats,        \* CommandBuffer.stats: BatchStats
    current_pipeline,   \* CommandBuffer.current_pipeline: Option<Pipeline>
    current_bindings,   \* CommandBuffer.current_bindings: Option<CommandBindings>
    last_state_changes, \* CommandBuffer.last_state_changes: category -> StateChangeType
    max_batch_size,     \* CommandBuffer.max_batch_size
    pushed,             \* the commands the last call handed to add_command, in order
    gl_context,         \* the calls the last call made on the GlContext, in order
    cache,          \* the GlCache
    gl_state,       \* native layer: the bindings of the GL context
    gl_calls,       \* the native calls the last GlCache call issued, in order
    records,        \* the record_* calls the last GlCache call made on the profiler, in order
    profiler,       \* profiling::PROFILER, the process-wide GlStateProfiler
    cache_calls,    \* how many GlCache calls the renderer has made
    client,         \* the renderer's open scoped override: what was bound when it stored
    PROFILER,       \* static PROFILER: OnceLock<Arc<Mutex<GlStateProfiler>>>
    arcs,           \* the live Arc<Mutex<GlStateProfiler>> allocations: who holds the lock, the data
    threads         \* the threads that use the profiler: where each one is in its call

PoolVars == <<pools, active_buffers, stats, gl_buffers, now, caller, native>>

CmdVars == <<commands, batch_groups, batch_stats, current_pipeline, current_bindings,
             last_state_changes, max_batch_size, pushed, gl_context>>

CacheVars == <<cache, gl_state, gl_calls, records, profiler, cache_calls, client>>

\* the same without the bindings of the native layer, which the pool's calls change
CacheOwnVars == <<cache, gl_calls, records, profiler, cache_calls, client>>

ThreadVars == <<PROFILER, arcs, threads>>

vars == <<PoolVars, CmdVars, CacheVars, ThreadVars, op, ret>>

-----------------------------------------------------------------------------
(* Configuration (buffer_pool.rs:20-34).  The three limits are scaled down  *)
(* from the source's 8 / 64 / 512 so that the caps are reachable; they keep *)
(* the source's ordering MIN_POOL_SIZE <= MAX_POOL_SIZE < MAX_TOTAL_BUFFERS.*)

MIN_POOL_SIZE == 2

MAX_POOL_SIZE == 2

MAX_TOTAL_BUFFERS == 3

SIZE_BUCKETS == <<512, 2048, 8192, 32768, 131072, 524288, 2097152>>

\* 16 * 1024 * 1024, the cap tested in get_size_bucket
BUCKET_CAP == 16777216

\* BufferPool::new: max_age = Duration::from_secs(30)
max_age == 30

\* Bounds of the exploration.
MaxHits == 3

MaxMisses == 5

MaxTicks == 1

\* The clock advances in steps of the age threshold.
TickStep == max_age

\* Names glGenBuffers can hand out; 0 is GL's "no buffer".  One more than the
\* cap, so that a pool that went past the cap would find a name to do it with.
Handles == 1 .. (MAX_TOTAL_BUFFERS + 1)

-----------------------------------------------------------------------------
(* Small helpers for Rust's integer and float operations. *)

saturating_sub(a, b) == IF a >= b THEN a - b ELSE 0

RECURSIVE Gcd(_, _)
Gcd(a, b) == IF b = 0 THEN a ELSE Gcd(b, a % b)

\* An f64 quotient (a / b) * 100.0, kept exactly as a reduced fraction of percents.
Percent(a, b) ==
    LET g == Gcd(100 * a, b) IN <<(100 * a) \div g, b \div g>>

\* BufferPoolStats::default()
BufferPoolStatsDefault ==
    [ total_buffers |-> 0, buffers_in_use |-> 0, buffers_available |-> 0,
      cache_hits |-> 0, cache_misses |-> 0, pool_allocations |-> 0,
      pool_deallocations |-> 0, gpu_allocations_saved |-> 0,
      memory_usage_bytes |-> 0, pool_efficiency |-> <<0, 1>> ]

PoolKey(buffer_type, usage, size_bucket) ==
    [buffer_type |-> buffer_type, usage |-> usage, size_bucket |-> size_bucket]

PooledBuffer(gl_buf, size, buffer_type, usage, last_used) ==
    [gl_buf |-> gl_buf, size |-> size, buffer_type |-> buffer_type,
     usage |-> usage, last_used |-> last_used]

\* The native calls of one operation, as a bag.
Call1(c) == SetToBag({c})

gl_target(buffer_type) ==
    IF buffer_type = "VertexBuffer" THEN "GL_ARRAY_BUFFER" ELSE "GL_ELEMENT_ARRAY_BUFFER"

gl_usage(usage) ==
    CASE usage = "Immutable" -> "GL_STATIC_DRAW"
      [] usage = "Dynamic" -> "GL_DYNAMIC_DRAW"
      [] OTHER -> "GL_STREAM_DRAW"

-----------------------------------------------------------------------------
(* BufferPool::get_size_bucket *)

\* for &bucket_size in SIZE_BUCKETS { if size <= bucket_size { return bucket_size } }
RECURSIVE ladder_scan(_, _)
ladder_scan(size, i) ==
    IF i > Len(SIZE_BUCKETS) THEN 0
    ELSE IF size <= SIZE_BUCKETS[i] THEN SIZE_BUCKETS[i]
    ELSE ladder_scan(size, i + 1)

\* while bucket < size { bucket *= 2; if bucket > 16 MiB { return bucket } } bucket
RECURSIVE doubling_loop(_, _)
doubling_loop(size, bucket) ==
    IF bucket < size
    THEN LET b2 == bucket * 2
         IN IF b2 > BUCKET_CAP THEN b2 ELSE doubling_loop(size, b2)
    ELSE bucket

get_size_bucket(size) ==
    LET hit == ladder_scan(size, 1)
    IN IF hit # 0 THEN hit
       ELSE doubling_loop(size, SIZE_BUCKETS[Len(SIZE_BUCKETS)])

-----------------------------------------------------------------------------
(* Results and map helpers *)

Ok(v) == [ok |-> TRUE, val |-> v]

Err(e) == [ok |-> FALSE, err |-> e]

\* HashMap::insert(k, v): adds the key or overwrites its value
MapInsert(m, k, v) == [x \in DOMAIN m \cup {k} |-> IF x = k THEN v ELSE m[x]]

\* HashMap::remove(k)
MapRemove(m, k) == [x \in DOMAIN m \ {k} |-> m[x]]

EmptyMap == [x \in {} |-> 0]

RECURSIVE SeqSum(_)
SeqSum(s) == IF s = <<>> THEN 0 ELSE Head(s) + SeqSum(Tail(s))

\* The concatenation of f[k] over the keys of f, in some order of the keys
\* (only used where the order is not observable: sums and bags).
RECURSIVE Flatten(_)
Flatten(f) ==
    IF DOMAIN f = {} THEN <<>>
    ELSE LET k == CHOOSE x \in DOMAIN f : TRUE
         IN f[k] \o Flatten([x \in DOMAIN f \ {k} |-> f[x]])

\* The bag of glDeleteBuffers calls for a sequence of buffers
RECURSIVE DeleteCalls(_)
DeleteCalls(bufs) ==
    IF bufs = <<>> THEN EmptyBag
    ELSE Call1(<<"glDeleteBuffers", Head(bufs).gl_buf>>) (+) DeleteCalls(Tail(bufs))

RECURSIVE SeqOfSet(_)
SeqOfSet(S) ==
    IF S = {} THEN <<>>
    ELSE LET x == CHOOSE y \in S : TRUE IN <<x>> \o SeqOfSet(S \ {x})

-----------------------------------------------------------------------------
(* BufferPool::new *)

BufferPoolNew ==
    [ pools |-> EmptyMap, active_buffers |-> EmptyMap, stats |-> BufferPoolStatsDefault ]

(* BufferPool::update_efficiency *)
update_efficiency(st) ==
    [st EXCEPT
        !.pool_efficiency =
            IF st.total_buffers = 0 THEN <<100, 1>>
            ELSE Percent(st.buffers_in_use, st.total_buffers),
        !.gpu_allocations_saved = st.cache_hits]

(* The native glGenBuffers(1, &mut gl_buf): writes the lowest name not in   *)
(* use (the pool never orders or compares names, so which unused name it is *)
(* makes no difference), or leaves gl_buf at 0 when the call fails.         *)
LowestUnused(used) == CHOOSE h \in Handles \ used : \A g \in Handles \ used : h <= g

glGenBuffers(w, fail) ==
    IF fail \/ Handles \ w.gl_buffers = {} THEN 0 ELSE LowestUnused(w.gl_buffers)

(* BufferPool::acquire_buffer.  t is Instant::now(); fail tells whether the *)
(* native glGenBuffers fails, should the call reach it.                     *)
\* Mutant of acquire_hit: buffers_available is not taken down
acquire_hit_keeps_available(w, pool_key, t) ==
    LET pool == w.pools[pool_key]
        buffer == [pool[Len(pool)] EXCEPT !.last_used = t]
        gl_buf == buffer.gl_buf
    IN [w EXCEPT
          !.pools[pool_key] = SubSeq(pool, 1, Len(pool) - 1),
          !.active_buffers = MapInsert(@, gl_buf, buffer),
          !.stats.cache_hits = @ + 1,
          !.stats.buffers_in_use = @ + 1,
          !.ret = Ok(gl_buf)]

acquire_hit(w, pool_key, t) ==
    LET pool == w.pools[pool_key]
        buffer == [pool[Len(pool)] EXCEPT !.last_used = t]
        gl_buf == buffer.gl_buf
    IN [w EXCEPT
          !.pools[pool_key] = SubSeq(pool, 1, Len(pool) - 1),
          !.active_buffers = MapInsert(@, gl_buf, buffer),
          !.stats.cache_hits = @ + 1,
          !.stats.buffers_in_use = @ + 1,
          !.stats.buffers_available = saturating_sub(@, 1),
          !.ret = Ok(gl_buf)]

\* Mutant of acquire_miss: the limit test is > instead of >=
acquire_miss_late_limit(w, buffer_type, usage, size_bucket, t, fail) ==
    LET w1 == [w EXCEPT !.stats.cache_misses = @ + 1]
        gen == glGenBuffers(w, fail)
    IN IF w1.stats.total_buffers > MAX_TOTAL_BUFFERS
       THEN [w1 EXCEPT !.ret = Err("LimitReached")]
       ELSE LET w2 == [w1 EXCEPT !.native = @ (+) Call1(<<"glGenBuffers", gen>>)]
            IN IF gen = 0
               THEN [w2 EXCEPT !.ret = Err("GenFailed")]
               ELSE LET buffer == PooledBuffer(gen, size_bucket, buffer_type, usage, t)
                    IN [w2 EXCEPT
                          !.gl_buffers = @ \cup {gen},
                          !.native = @ (+) Call1(<<"glBindBuffer", gl_target(buffer_type), gen>>)
                                       (+) Call1(<<"glBufferData", gl_target(buffer_type),
                                                   size_bucket, gl_usage(usage)>>)
                                       (+) Call1(<<"glBindBuffer", gl_target(buffer_type), 0>>),
                          !.active_buffers = MapInsert(@, gen, buffer),
                          !.stats.total_buffers = @ + 1,
                          !.stats.buffers_in_use = @ + 1,
                          !.stats.pool_allocations = @ + 1,
                          !.stats.memory_usage_bytes = @ + size_bucket,
                          !.ret = Ok(gen)]

\* Mutant of acquire_miss: the allocation is counted before the limit test
acquire_miss_counts_first(w, buffer_type, usage, size_bucket, t, fail) ==
    LET w1 == [w EXCEPT !.stats.cache_misses = @ + 1, !.stats.pool_allocations = @ + 1]
        gen == glGenBuffers(w, fail)
    IN IF w1.stats.total_buffers >= MAX_TOTAL_BUFFERS
       THEN [w1 EXCEPT !.ret = Err("LimitReached")]
       ELSE LET w2 == [w1 EXCEPT !.native = @ (+) Call1(<<"glGenBuffers", gen>>)]
            IN IF gen = 0
               THEN [w2 EXCEPT !.ret = Err("GenFailed")]
               ELSE LET buffer == PooledBuffer(gen, size_bucket, buffer_type, usage, t)
                    IN [w2 EXCEPT
                          !.gl_buffers = @ \cup {gen},
                          !.native = @ (+) Call1(<<"glBindBuffer", gl_target(buffer_type), gen>>)
                                       (+) Call1(<<"glBufferData", gl_target(buffer_type),
                                                   size_bucket, gl_usage(usage)>>)
                                       (+) Call1(<<"glBindBuffer", gl_target(buffer_type), 0>>),
                          !.active_buffers = MapInsert(@, gen, buffer),
                          !.stats.total_buffers = @ + 1,
                          !.stats.buffers_in_use = @ + 1,
                          !.stats.memory_usage_bytes = @ + size_bucket,
                          !.ret = Ok(gen)]

acquire_miss(w, buffer_type, usage, size_bucket, t, fail) ==
    LET w1 == [w EXCEPT !.stats.cache_misses = @ + 1]
        gen == glGenBuffers(w, fail)
    IN IF w1.stats.total_buffers >= MAX_TOTAL_BUFFERS
       THEN [w1 EXCEPT !.ret = Err("LimitReached")]
       ELSE LET w2 == [w1 EXCEPT !.native = @ (+) Call1(<<"glGenBuffers", gen>>)]
            IN IF gen = 0
               THEN [w2 EXCEPT !.ret = Err("GenFailed")]
               ELSE LET buffer == PooledBuffer(gen, size_bucket, buffer_type, usage, t)
                    IN [w2 EXCEPT
                          !.gl_buffers = @ \cup {gen},
                          !.native = @ (+) Call1(<<"glBindBuffer", gl_target(buffer_type), gen>>)
                                       (+) Call1(<<"glBufferData", gl_target(buffer_type),
                                                   size_bucket, gl_usage(usage)>>)
                                       (+) Call1(<<"glBindBuffer", gl_target(buffer_type), 0>>),
                          !.active_buffers = MapInsert(@, gen, buffer),
                          !.stats.total_buffers = @ + 1,
                          !.stats.buffers_in_use = @ + 1,
                          !.stats.pool_allocations = @ + 1,
                          !.stats.memory_usage_bytes = @ + size_bucket,
                          !.ret = Ok(gen)]

\* Mutant of acquire_buffer: the free list is looked up by the requested size, not its bucket
acquire_buffer_exact_key(w, buffer_type, usage, size, t, fail) ==
    LET size_bucket == get_size_bucket(size)
        pool_key == PoolKey(buffer_type, usage, size)
    IN IF pool_key \in DOMAIN w.pools /\ Len(w.pools[pool_key]) > 0
       THEN acquire_hit(w, pool_key, t)
       ELSE acquire_miss(w, buffer_type, usage, size_bucket, t, fail)

acquire_buffer(w, buffer_type, usage, size, t, fail) ==
    LET size_bucket == get_size_bucket(size)
        pool_key == PoolKey(buffer_type, usage, size_bucket)
    IN IF pool_key \in DOMAIN w.pools /\ Len(w.pools[pool_key]) > 0
       THEN acquire_hit(w, pool_key, t)
       ELSE acquire_miss(w, buffer_type, usage, size_bucket, t, fail)

(* BufferPool::release_buffer *)
\* Mutant of release_found: the buffer is read from the active set but not removed
release_found_keeps_active(w, gl_buf) ==
    LET buffer == w.active_buffers[gl_buf]
        pool_key == PoolKey(buffer.buffer_type, buffer.usage, buffer.size)
        w1 == w
        \* self.pools.entry(pool_key).or_default()
        pool == IF pool_key \in DOMAIN w1.pools THEN w1.pools[pool_key] ELSE <<>>
        w2 == IF Len(pool) < MAX_POOL_SIZE
              THEN [w1 EXCEPT
                      !.pools = MapInsert(@, pool_key, Append(pool, buffer)),
                      !.stats.buffers_in_use = saturating_sub(@, 1),
                      !.stats.buffers_available = @ + 1,
                      !.stats.pool_deallocations = @ + 1]
              ELSE [w1 EXCEPT
                      !.pools = MapInsert(@, pool_key, pool),
                      !.native = @ (+) Call1(<<"glDeleteBuffers", gl_buf>>),
                      !.gl_buffers = @ \ {gl_buf},
                      !.stats.total_buffers = saturating_sub(@, 1),
                      !.stats.buffers_in_use = saturating_sub(@, 1),
                      !.stats.memory_usage_bytes = saturating_sub(@, buffer.size)]
    IN [w2 EXCEPT !.stats = update_efficiency(@), !.ret = Ok("unit")]

\* Mutant of release_found: the capacity test is <= instead of <
release_found_one_more(w, gl_buf) ==
    LET buffer == w.active_buffers[gl_buf]
        pool_key == PoolKey(buffer.buffer_type, buffer.usage, buffer.size)
        w1 == [w EXCEPT !.active_buffers = MapRemove(@, gl_buf)]
        \* self.pools.entry(pool_key).or_default()
        pool == IF pool_key \in DOMAIN w1.pools THEN w1.pools[pool_key] ELSE <<>>
        w2 == IF Len(pool) <= MAX_POOL_SIZE
              THEN [w1 EXCEPT
                      !.pools = MapInsert(@, pool_key, Append(pool, buffer)),
                      !.stats.buffers_in_use = saturating_sub(@, 1),
                      !.stats.buffers_available = @ + 1,
                      !.stats.pool_deallocations = @ + 1]
              ELSE [w1 EXCEPT
                      !.pools = MapInsert(@, pool_key, pool),
                      !.native = @ (+) Call1(<<"glDeleteBuffers", gl_buf>>),
                      !.gl_buffers = @ \ {gl_buf},
                      !.stats.total_buffers = saturating_sub(@, 1),
                      !.stats.buffers_in_use = saturating_sub(@, 1),
                      !.stats.memory_usage_bytes = saturating_sub(@, buffer.size)]
    IN [w2 EXCEPT !.stats = update_efficiency(@), !.ret = Ok("unit")]

release_found(w, gl_buf) ==
    LET buffer == w.active_buffers[gl_buf]
        pool_key == PoolKey(buffer.buffer_type, buffer.usage, buffer.size)
        w1 == [w EXCEPT !.active_buffers = MapRemove(@, gl_buf)]
        \* self.pools.entry(pool_key).or_default()
        pool == IF pool_key \in DOMAIN w1.pools THEN w1.pools[pool_key] ELSE <<>>
        w2 == IF Len(pool) < MAX_POOL_SIZE
              THEN [w1 EXCEPT
                      !.pools = MapInsert(@, pool_key, Append(pool, buffer)),
                      !.stats.buffers_in_use = saturating_sub(@, 1),
                      !.stats.buffers_available = @ + 1,
                      !.stats.pool_deallocations = @ + 1]
              ELSE [w1 EXCEPT
                      !.pools = MapInsert(@, pool_key, pool),
                      !.native = @ (+) Call1(<<"glDeleteBuffers", gl_buf>>),
                      !.gl_buffers = @ \ {gl_buf},
                      !.stats.total_buffers = saturating_sub(@, 1),
                      !.stats.buffers_in_use = saturating_sub(@, 1),
                      !.stats.memory_usage_bytes = saturating_sub(@, buffer.size)]
    IN [w2 EXCEPT !.stats = update_efficiency(@), !.ret = Ok("unit")]

\* Mutant of release_buffer: the not-found path still refreshes the derived statistics
release_buffer_refreshes(w, gl_buf) ==
    IF gl_buf \notin DOMAIN w.active_buffers
    THEN [w EXCEPT !.stats = update_efficiency(@), !.ret = Err("NotFound")]
    ELSE release_found(w, gl_buf)

release_buffer(w, gl_buf) ==
    IF gl_buf \notin DOMAIN w.active_buffers
    THEN [w EXCEPT !.ret = Err("NotFound")]
    ELSE release_found(w, gl_buf)

(* BufferPool::cleanup_old_buffers *)

\* Vec::swap_remove(i): removes element i and puts the last element in its place
swap_remove(v, i) ==
    LET n == Len(v)
    IN IF i = n THEN SubSeq(v, 1, n - 1)
       ELSE [SubSeq(v, 1, n - 1) EXCEPT ![i] = v[n]]

\* the while loop over one pool: [pool |-> what is kept, removed |-> what is evicted]
RECURSIVE sweep_pool(_, _, _, _)
sweep_pool(pool, i, t, removed) ==
    IF i > Len(pool) THEN [pool |-> pool, removed |-> removed]
    ELSE IF t - pool[i].last_used >= max_age
         THEN sweep_pool(swap_remove(pool, i), i, t, Append(removed, pool[i]))
         ELSE sweep_pool(pool, i + 1, t, removed)

\* (variant: the sweep also reclaims active buffers older than max_age)
cleanup_old_buffers_sweeps_active(w, t) ==
    LET swept == [k \in DOMAIN w.pools |-> sweep_pool(w.pools[k], 1, t, <<>>)]
        stale == {h \in DOMAIN w.active_buffers : t - w.active_buffers[h].last_used >= max_age}
        removed == Flatten([k \in DOMAIN swept |-> swept[k].removed])
                     \o SeqOfSet({w.active_buffers[h] : h \in stale})
        total_cleaned == Len(removed)
        memory_freed == SeqSum([i \in 1 .. Len(removed) |-> removed[i].size])
        kept == {k \in DOMAIN swept : swept[k].pool # <<>>}
        st == [w.stats EXCEPT
                 !.total_buffers = saturating_sub(@, total_cleaned),
                 !.buffers_available = saturating_sub(@, total_cleaned),
                 !.memory_usage_bytes = saturating_sub(@, memory_freed)]
    IN [w EXCEPT
          !.pools = [k \in kept |-> swept[k].pool],
          !.active_buffers = [h \in DOMAIN w.active_buffers \ stale |-> w.active_buffers[h]],
          !.native = @ (+) DeleteCalls(removed),
          !.gl_buffers = @ \ {removed[i].gl_buf : i \in 1 .. Len(removed)},
          !.stats = IF total_cleaned > 0 THEN update_efficiency(st) ELSE st,
          !.ret = "unit"]

cleanup_old_buffers(w, t) ==
    LET swept == [k \in DOMAIN w.pools |-> sweep_pool(w.pools[k], 1, t, <<>>)]
        removed == Flatten([k \in DOMAIN swept |-> swept[k].removed])
        total_cleaned == Len(removed)
        memory_freed == SeqSum([i \in 1 .. Len(removed) |-> removed[i].size])
        kept == {k \in DOMAIN swept : swept[k].pool # <<>>}
        st == [w.stats EXCEPT
                 !.total_buffers = saturating_sub(@, total_cleaned),
                 !.buffers_available = saturating_sub(@, total_cleaned),
                 !.memory_usage_bytes = saturating_sub(@, memory_freed)]
    IN [w EXCEPT
          !.pools = [k \in kept |-> swept[k].pool],
          !.native = @ (+) DeleteCalls(removed),
          !.gl_buffers = @ \ {removed[i].gl_buf : i \in 1 .. Len(removed)},
          !.stats = IF total_cleaned > 0 THEN update_efficiency(st) ELSE st,
          !.ret = "unit"]

\* (variant: only the free lists are destroyed natively)
clear_all_leaks_active(w) ==
    LET pooled == Flatten(w.pools)
    IN [w EXCEPT
          !.native = @ (+) DeleteCalls(pooled),
          !.gl_buffers = @ \ {pooled[i].gl_buf : i \in 1 .. Len(pooled)},
          !.pools = EmptyMap,
          !.active_buffers = EmptyMap,
          !.stats = [BufferPoolStatsDefault EXCEPT
                       !.cache_hits = w.stats.cache_hits,
                       !.cache_misses = w.stats.cache_misses,
                       !.pool_allocations = w.stats.pool_allocations,
                       !.pool_deallocations = w.stats.pool_deallocations,
                       !.gpu_allocations_saved = w.stats.gpu_allocations_saved],
          !.ret = "unit"]

(* BufferPool::clear_all *)
clear_all(w) ==
    LET pooled == Flatten(w.pools)
        active == SeqOfSet({w.active_buffers[h] : h \in DOMAIN w.active_buffers})
    IN [w EXCEPT
          !.native = @ (+) DeleteCalls(pooled) (+) DeleteCalls(active),
          !.gl_buffers = (@ \ {pooled[i].gl_buf : i \in 1 .. Len(pooled)})
                            \ {active[i].gl_buf : i \in 1 .. Len(active)},
          !.pools = EmptyMap,
          !.active_buffers = EmptyMap,
          !.stats = [BufferPoolStatsDefault EXCEPT
                       !.cache_hits = w.stats.cache_hits,
                       !.cache_misses = w.stats.cache_misses,
                       !.pool_allocations = w.stats.pool_allocations,
                       !.pool_deallocations = w.stats.pool_deallocations,
                       !.gpu_allocations_saved = w.stats.gpu_allocations_saved],
          !.ret = "unit"]

(* BufferPool::warm_up.  failing is the configuration (0 for none) for      *)
(* which the native glGenBuffers fails, should its acquire reach it.        *)
common_configs ==
    << <<"VertexBuffer", "Dynamic", 2048>>,
       <<"VertexBuffer", "Immutable", 8192>>,
       <<"IndexBuffer", "Immutable", 2048>> >>

\* iteration k (from 0) of the two nested loops, flattened; `?` returns early
RECURSIVE warm_up_from(_, _, _, _)
warm_up_from(w, k, t, failing) ==
    IF k >= Len(common_configs) * MIN_POOL_SIZE THEN [w EXCEPT !.ret = Ok("unit")]
    ELSE LET c == (k \div MIN_POOL_SIZE) + 1
             cfg == common_configs[c]
             w1 == acquire_buffer(w, cfg[1], cfg[2], cfg[3], t, failing = c)
         IN IF ~w1.ret.ok THEN w1
            ELSE LET w2 == release_buffer(w1, w1.ret.val)
                 IN IF ~w2.ret.ok THEN w2
                    ELSE warm_up_from(w2, k + 1, t, failing)

warm_up(w, t, failing) == warm_up_from(w, 0, t, failing)

-----------------------------------------------------------------------------
(***************************************************************************)
(* Part 2: graphics/command_buffer.rs (CommandBuffer).                     *)
(*                                                                         *)
(* The command buffer is a record cb holding the CommandBuffer fields      *)
(* (commands, batch_groups, stats, current_pipeline, current_bindings,     *)
(* last_state_changes) and two observations of the call in progress:       *)
(* pushed, the commands it has handed to add_command, and gl, the calls    *)
(* it has made on the GlContext, both in order.  Every method is an        *)
(* operator from cb to cb.                                                 *)
(***************************************************************************)

\* MAX_BATCH_SIZE (command_buffer.rs:17), scaled down from 1024
MAX_BATCH_SIZE == 4

\* The cumulative BatchStats counters explored
MaxCommands == 6

MaxFlushes == 1

MaxEliminated == 1

MaxBatched == 2

\* MAX_INSTANCES_PER_DRAW (command_buffer.rs:20)
MAX_INSTANCES_PER_DRAW == 16384

\* Option<T>
None == [some |-> FALSE]

Some(x) == [some |-> TRUE, val |-> x]

\* An f64 quotient a / b, kept exactly as a reduced fraction.
Ratio(a, b) ==
    LET g == Gcd(a, b) IN <<a \div g, b \div g>>

DrawElementsParams(base_element, num_elements, num_instances, primitive_type, index_type) ==
    [ base_element |-> base_element, num_elements |-> num_elements,
      num_instances |-> num_instances, primitive_type |-> primitive_type,
      index_type |-> index_type ]

\* enum Command
DrawElements(pipeline, bindings, params) ==
    [tag |-> "DrawElements", pipeline |-> pipeline, bindings |-> bindings, params |-> params]

StateChange(state_type) == [tag |-> "StateChange", state_type |-> state_type]

BeginPass(pass, action) == [tag |-> "BeginPass", pass |-> pass, action |-> action]

EndPass == [tag |-> "EndPass"]

ApplyUniforms(data) == [tag |-> "ApplyUniforms", data |-> data]

\* enum StateChangeType
Viewport(x, y, w, h) == [kind |-> "Viewport", x |-> x, y |-> y, w |-> w, h |-> h]

Scissor(x, y, w, h) == [kind |-> "Scissor", x |-> x, y |-> y, w |-> w, h |-> h]

PipelineChange(pipeline) == [kind |-> "Pipeline", pipeline |-> pipeline]

\* struct Bindings (what the caller passes) and CommandBindings::from(&Bindings)
Bindings(vertex_buffers, index_buffer, images) ==
    [vertex_buffers |-> vertex_buffers, index_buffer |-> index_buffer, images |-> images]

CommandBindingsFrom(bindings) ==
    [ vertex_buffers |-> bindings.vertex_buffers,
      index_buffer |-> bindings.index_buffer,
      images |-> bindings.images ]

\* BatchStats::default()
BatchStatsDefault ==
    [ total_commands |-> 0, batched_commands |-> 0, draw_calls_saved |-> 0,
      state_changes_eliminated |-> 0, instanced_draws_created |-> 0,
      average_batch_size |-> <<0, 1>>, flush_count |-> 0,
      compatibility_rate |-> <<0, 1>> ]

(* BatchGroup *)
BatchGroupNew(pipeline, bindings, primitive_type, index_type) ==
    [ pipeline |-> pipeline, bindings |-> bindings, primitive_type |-> primitive_type,
      index_type |-> index_type, draws |-> <<>> ]

DrawCall(base_element, num_elements, num_instances) ==
    [base_element |-> base_element, num_elements |-> num_elements,
     num_instances |-> num_instances]

\* (variant: the new draw goes in front of the group's draws)
add_draw_in_front(group, base_element, num_elements, num_instances) ==
    [group EXCEPT !.draws = <<DrawCall(base_element, num_elements, num_instances)>> \o @]

add_draw(group, base_element, num_elements, num_instances) ==
    [group EXCEPT !.draws = Append(@, DrawCall(base_element, num_elements, num_instances))]

\* (variant: the index type is not compared)
is_compatible_any_index(group, pipeline, bindings, primitive_type, index_type) ==
    /\ group.pipeline = pipeline
    /\ group.bindings = bindings
    /\ group.primitive_type = primitive_type

is_compatible(group, pipeline, bindings, primitive_type, index_type) ==
    /\ group.pipeline = pipeline
    /\ group.bindings = bindings
    /\ group.primitive_type = primitive_type
    /\ group.index_type = index_type

draw_count(group) == Len(group.draws)

can_instance(group) ==
    IF Len(group.draws) < 2 THEN FALSE
    ELSE LET first_draw == group.draws[1]
         IN \A i \in 1 .. Len(group.draws) :
               /\ group.draws[i].num_elements = first_draw.num_elements
               /\ group.draws[i].num_instances = 1

(* CommandBuffer::new *)
auto_flush == TRUE

CommandBufferNew ==
    [ commands |-> <<>>, batch_groups |-> <<>>, stats |-> BatchStatsDefault,
      current_pipeline |-> None, current_bindings |-> None,
      last_state_changes |-> EmptyMap, max_batch_size |-> MAX_BATCH_SIZE,
      pushed |-> <<>>, gl |-> <<>>, ret |-> "unit" ]

\* (variant: the batch groups survive a flush)
flush_keeps_groups(cb) ==
    [cb EXCEPT
        !.commands = <<>>,
        !.stats.flush_count = @ + 1,
        !.current_pipeline = None,
        !.current_bindings = None,
        !.ret = "unit"]

(* CommandBuffer::flush *)
flush(cb) ==
    [cb EXCEPT
        !.commands = <<>>,
        !.batch_groups = <<>>,
        !.stats.flush_count = @ + 1,
        !.current_pipeline = None,
        !.current_bindings = None,
        !.ret = "unit"]

\* (variant: the flush waits until the ceiling is exceeded)
add_command_flushes_late(cb, command) ==
    LET c1 == [cb EXCEPT
                 !.commands = Append(@, command),
                 !.stats.total_commands = @ + 1,
                 !.pushed = Append(@, command)]
    IN IF auto_flush /\ Len(c1.commands) > cb.max_batch_size THEN flush(c1) ELSE c1

(* CommandBuffer::add_command *)
add_command(cb, command) ==
    LET c1 == [cb EXCEPT
                 !.commands = Append(@, command),
                 !.stats.total_commands = @ + 1,
                 !.pushed = Append(@, command)]
    IN IF auto_flush /\ Len(c1.commands) >= cb.max_batch_size THEN flush(c1) ELSE c1

(* CommandBuffer::draw_elements *)
draw_elements(cb, pipeline, bindings, params) ==
    LET cmd_bindings == CommandBindingsFrom(bindings)
        c1 == IF cb.current_pipeline # Some(pipeline)
              THEN [add_command(cb, StateChange(PipelineChange(pipeline)))
                       EXCEPT !.current_pipeline = Some(pipeline)]
              ELSE cb
        c2 == IF c1.current_bindings # Some(cmd_bindings)
              THEN [c1 EXCEPT !.current_bindings = Some(cmd_bindings)]
              ELSE c1
    IN [add_command(c2, DrawElements(pipeline, cmd_bindings, params)) EXCEPT !.ret = "unit"]

(* CommandBuffer::state_change *)
state_key(state_type) ==
    CASE state_type.kind = "Viewport" -> "viewport"
      [] state_type.kind = "Scissor" -> "scissor"
      [] state_type.kind = "Pipeline" -> "pipeline"

\* (variant: every state_change is recorded, redundant or not)
state_change_always_records(cb, state_type) ==
    LET key == state_key(state_type)
        c1 == IF state_type.kind = "Pipeline"
              THEN [cb EXCEPT !.current_pipeline = Some(state_type.pipeline)]
              ELSE cb
        c2 == [c1 EXCEPT !.last_state_changes = MapInsert(@, key, state_type)]
    IN [add_command(c2, StateChange(state_type)) EXCEPT !.ret = "unit"]

state_change(cb, state_type) ==
    LET key == state_key(state_type)
    IN IF key \in DOMAIN cb.last_state_changes /\ cb.last_state_changes[key] = state_type
       THEN [cb EXCEPT !.stats.state_changes_eliminated = @ + 1, !.ret = "unit"]
       ELSE LET c1 == IF state_type.kind = "Pipeline"
                      THEN [cb EXCEPT !.current_pipeline = Some(state_type.pipeline)]
                      ELSE cb
                c2 == [c1 EXCEPT !.last_state_changes = MapInsert(@, key, state_type)]
            IN [add_command(c2, StateChange(state_type)) EXCEPT !.ret = "unit"]

(* CommandBuffer::begin_pass, end_pass, apply_uniforms *)
\* (variant: the tracked pipeline and bindings survive a begin_pass)
begin_pass_keeps_tracking(cb, pass, action) ==
    [add_command(cb, BeginPass(pass, action)) EXCEPT !.ret = "unit"]

begin_pass(cb, pass, action) ==
    LET c1 == [cb EXCEPT !.current_pipeline = None, !.current_bindings = None]
    IN [add_command(c1, BeginPass(pass, action)) EXCEPT !.ret = "unit"]

end_pass(cb) == [add_command(cb, EndPass) EXCEPT !.ret = "unit"]

apply_uniforms(cb, data) == [add_command(cb, ApplyUniforms(data)) EXCEPT !.ret = "unit"]

(* CommandBuffer::optimize_batches *)
\* index of the first group compatible with the draw, 0 when there is none
\* (variant: a draw only joins the group opened last)
find_group_last_only(groups, i, draw) ==
    IF groups # <<>> /\ is_compatible(groups[Len(groups)], draw.pipeline, draw.bindings,
                                       draw.params.primitive_type, draw.params.index_type)
    THEN Len(groups)
    ELSE 0

RECURSIVE find_group(_, _, _)
find_group(groups, i, draw) ==
    IF i > Len(groups) THEN 0
    ELSE IF is_compatible(groups[i], draw.pipeline, draw.bindings,
                          draw.params.primitive_type, draw.params.index_type)
         THEN i
         ELSE find_group(groups, i + 1, draw)

\* the loop over self.commands from position i on
RECURSIVE batch_loop(_, _, _, _)
batch_loop(cmds, i, groups, compatible_commands) ==
    IF i > Len(cmds)
    THEN [batch_groups |-> groups, compatible_commands |-> compatible_commands]
    ELSE IF cmds[i].tag # "DrawElements"
    THEN batch_loop(cmds, i + 1, groups, compatible_commands)
    ELSE LET draw == cmds[i]
             p == draw.params
             g == find_group(groups, 1, draw)
         IN IF g # 0
            THEN batch_loop(cmds, i + 1,
                            [groups EXCEPT ![g] = add_draw(@, p.base_element,
                                                           p.num_elements, p.num_instances)],
                            compatible_commands + 1)
            ELSE batch_loop(cmds, i + 1,
                            Append(groups,
                                   add_draw(BatchGroupNew(draw.pipeline, draw.bindings,
                                                          p.primitive_type, p.index_type),
                                            p.base_element, p.num_elements, p.num_instances)),
                            compatible_commands)

optimize_batches(cb) ==
    LET r == batch_loop(cb.commands, 1, <<>>, 0)
    IN [cb EXCEPT
          !.batch_groups = r.batch_groups,
          !.stats.batched_commands = @ + r.compatible_commands,
          !.stats.compatibility_rate =
              IF cb.stats.total_commands > 0
              THEN Percent(r.compatible_commands, cb.stats.total_commands)
              ELSE <<0, 1>>,
          !.ret = "unit"]

(* The calls execute makes on the GlContext *)
execute_state_change(state_type) ==
    CASE state_type.kind = "Viewport" ->
           [call |-> "apply_viewport", x |-> state_type.x, y |-> state_type.y,
            w |-> state_type.w, h |-> state_type.h]
      [] state_type.kind = "Scissor" ->
           [call |-> "apply_scissor_rect", x |-> state_type.x, y |-> state_type.y,
            w |-> state_type.w, h |-> state_type.h]
      [] state_type.kind = "Pipeline" ->
           [call |-> "apply_pipeline", pipeline |-> state_type.pipeline]

execute_begin_pass(pass, action) == [call |-> "begin_pass", pass |-> pass, action |-> action]

execute_end_pass == [call |-> "end_render_pass"]

execute_apply_uniforms(data) ==
    [call |-> "apply_uniforms_from_bytes", data |-> data, len |-> Len(data)]

gl_draw(base_element, num_elements, num_instances) ==
    [call |-> "draw", base_element |-> base_element, num_elements |-> num_elements,
     num_instances |-> num_instances]

\* apply_pipeline and apply_bindings, once per group
apply_group_state(group) ==
    << [call |-> "apply_pipeline", pipeline |-> group.pipeline],
       [call |-> "apply_bindings",
        bindings |-> Bindings(group.bindings.vertex_buffers, group.bindings.index_buffer,
                              group.bindings.images)] >>

Min(a, b) == IF a <= b THEN a ELSE b

execute_instanced_batch(group) ==
    LET total_instances == Min(Len(group.draws), MAX_INSTANCES_PER_DRAW)
        first_draw == group.draws[1]
    IN apply_group_state(group)
         \o <<gl_draw(first_draw.base_element, first_draw.num_elements, total_instances)>>

\* (variant: pipeline and bindings are applied again before every draw)
execute_multi_draw_batch_rebinds(group) ==
    LET RECURSIVE each(_)
        each(i) ==
            IF i > Len(group.draws) THEN <<>>
            ELSE apply_group_state(group)
                   \o <<gl_draw(group.draws[i].base_element, group.draws[i].num_elements,
                                group.draws[i].num_instances)>>
                   \o each(i + 1)
    IN each(1)

execute_multi_draw_batch(group) ==
    apply_group_state(group)
      \o [i \in 1 .. Len(group.draws) |->
            gl_draw(group.draws[i].base_element, group.draws[i].num_elements,
                    group.draws[i].num_instances)]

execute_single_draw_batch(group) ==
    LET draw == group.draws[1]
    IN apply_group_state(group)
         \o <<gl_draw(draw.base_element, draw.num_elements, draw.num_instances)>>

\* the first loop of execute: the non-draw commands from position i on
RECURSIVE replay_commands(_, _)
replay_commands(cmds, i) ==
    IF i > Len(cmds) THEN <<>>
    ELSE LET c == cmds[i]
             calls == CASE c.tag = "StateChange" -> <<execute_state_change(c.state_type)>>
                        [] c.tag = "BeginPass" -> <<execute_begin_pass(c.pass, c.action)>>
                        [] c.tag = "EndPass" -> <<execute_end_pass>>
                        [] c.tag = "ApplyUniforms" -> <<execute_apply_uniforms(c.data)>>
                        [] c.tag = "DrawElements" -> <<>>
         IN calls \o replay_commands(cmds, i + 1)

\* the second loop of execute: the batch groups from position i on
RECURSIVE issue_groups(_, _)
issue_groups(groups, i) ==
    IF i > Len(groups)
    THEN [gl |-> <<>>, draws_saved |-> 0, instances_created |-> 0]
    ELSE LET group == groups[i]
             original_draw_count == draw_count(group)
             rest == issue_groups(groups, i + 1)
         IN IF original_draw_count > 1
            THEN IF can_instance(group)
                 THEN [gl |-> execute_instanced_batch(group) \o rest.gl,
                       draws_saved |-> (original_draw_count - 1) + rest.draws_saved,
                       instances_created |-> 1 + rest.instances_created]
                 ELSE [gl |-> execute_multi_draw_batch(group) \o rest.gl,
                       draws_saved |-> (original_draw_count - 1) + rest.draws_saved,
                       instances_created |-> rest.instances_created]
            ELSE [gl |-> execute_single_draw_batch(group) \o rest.gl,
                  draws_saved |-> rest.draws_saved,
                  instances_created |-> rest.instances_created]

\* (variant: the tracked pipeline and bindings survive an execute)
execute_keeps_tracking(cb) ==
    IF cb.commands = <<>> THEN [cb EXCEPT !.ret = Ok("unit")]
    ELSE LET c1 == optimize_batches(cb)
             replayed == replay_commands(c1.commands, 1)
             issued == issue_groups(c1.batch_groups, 1)
             flush_count == c1.stats.flush_count + 1
         IN [c1 EXCEPT
               !.gl = @ \o replayed \o issued.gl,
               !.stats.draw_calls_saved = @ + issued.draws_saved,
               !.stats.instanced_draws_created = @ + issued.instances_created,
               !.stats.flush_count = flush_count,
               !.stats.average_batch_size =
                   IF flush_count > 0 THEN Ratio(c1.stats.total_commands, flush_count) ELSE @,
               !.commands = <<>>,
               !.batch_groups = <<>>,
               !.ret = Ok("unit")]

\* (variant: the batch groups are issued before the recorded commands are replayed)
execute_draws_first(cb) ==
    IF cb.commands = <<>> THEN [cb EXCEPT !.ret = Ok("unit")]
    ELSE LET c1 == optimize_batches(cb)
             replayed == replay_commands(c1.commands, 1)
             issued == issue_groups(c1.batch_groups, 1)
             flush_count == c1.stats.flush_count + 1
         IN [c1 EXCEPT
               !.gl = @ \o issued.gl \o replayed,
               !.stats.draw_calls_saved = @ + issued.draws_saved,
               !.stats.instanced_draws_created = @ + issued.instances_created,
               !.stats.flush_count = flush_count,
               !.stats.average_batch_size =
                   IF flush_count > 0 THEN Ratio(c1.stats.total_commands, flush_count) ELSE @,
               !.commands = <<>>,
               !.batch_groups = <<>>,
               !.current_pipeline = None,
               !.current_bindings = None,
               !.ret = Ok("unit")]

(* CommandBuffer::execute *)
execute(cb) ==
    IF cb.commands = <<>> THEN [cb EXCEPT !.ret = Ok("unit")]
    ELSE LET c1 == optimize_batches(cb)
             replayed == replay_commands(c1.commands, 1)
             issued == issue_groups(c1.batch_groups, 1)
             flush_count == c1.stats.flush_count + 1
         IN [c1 EXCEPT
               !.gl = @ \o replayed \o issued.gl,
               !.stats.draw_calls_saved = @ + issued.draws_saved,
               !.stats.instanced_draws_created = @ + issued.instances_created,
               !.stats.flush_count = flush_count,
               !.stats.average_batch_size =
                   IF flush_count > 0 THEN Ratio(c1.stats.total_commands, flush_count) ELSE @,
               !.commands = <<>>,
               !.batch_groups = <<>>,
               !.current_pipeline = None,
               !.current_bindings = None,
               !.ret = Ok("unit")]

-----------------------------------------------------------------------------
(***************************************************************************)
(* Part 3: graphics/gl/cache.rs (GlCache) and graphics/profiling.rs        *)
(* (GlStateProfiler).                                                      *)
(*                                                                         *)
(* The world record g holds the GlCache fields (cache), the bindings of    *)
(* the native layer (gl), the process-wide profiler (profiler), and what   *)
(* the last call did: the native calls it issued (gl_calls) and the        *)
(* record_* calls it made on the profiler (records), both in order.        *)
(***************************************************************************)

\* bounds of the model
MAX_SHADERSTAGE_IMAGES == 2

MaxCalls == 4

\* GLenum values of the native layer
GL_ARRAY_BUFFER == 34962

GL_ELEMENT_ARRAY_BUFFER == 34963

GL_TEXTURE_2D == 3553

GL_TEXTURE_CUBE_MAP == 34067

GL_TEXTURE0 == 33984

TextureTargets == {GL_TEXTURE_2D, GL_TEXTURE_CUBE_MAP}

\* StateChangeStats::default()
StateChangeStatsDefault ==
    [ total_calls |-> 0, redundant_calls |-> 0, buffer_binds |-> 0,
      texture_binds |-> 0, program_uses |-> 0, redundant_buffer_binds |-> 0,
      redundant_texture_binds |-> 0, redundant_program_uses |-> 0 ]

\* GlStateTracker::default()
GlStateTrackerDefault ==
    [ current_array_buffer |-> None, current_element_buffer |-> None,
      current_program |-> None, current_textures |-> EmptyMap ]

(* GlStateProfiler::new *)
GlStateProfilerNew ==
    [ stats |-> StateChangeStatsDefault, tracker |-> GlStateTrackerDefault,
      enabled |-> TRUE ]

(* GlStateProfiler::enable *)
enable(p) == [p EXCEPT !.enabled = TRUE]

(* GlStateProfiler::disable *)
disable(p) == [p EXCEPT !.enabled = FALSE]

\* (variant: the last-seen values survive a reset)
reset_keeps_tracker(p) == [p EXCEPT !.stats = StateChangeStatsDefault]

(* GlStateProfiler::reset *)
reset(p) == [p EXCEPT !.stats = StateChangeStatsDefault, !.tracker = GlStateTrackerDefault]

(* GlStateProfiler::record_buffer_bind *)
record_buffer_bind(p, target, buffer) ==
    IF ~p.enabled THEN p
    ELSE LET p1 == [p EXCEPT !.stats.total_calls = @ + 1,
                             !.stats.buffer_binds = @ + 1]
         IN IF target = GL_ARRAY_BUFFER
            THEN LET p2 == IF p1.tracker.current_array_buffer = Some(buffer)
                           THEN [p1 EXCEPT !.stats.redundant_calls = @ + 1,
                                           !.stats.redundant_buffer_binds = @ + 1]
                           ELSE p1
                 IN [p2 EXCEPT !.tracker.current_array_buffer = Some(buffer)]
            ELSE IF target = GL_ELEMENT_ARRAY_BUFFER
            THEN LET p2 == IF p1.tracker.current_element_buffer = Some(buffer)
                           THEN [p1 EXCEPT !.stats.redundant_calls = @ + 1,
                                           !.stats.redundant_buffer_binds = @ + 1]
                           ELSE p1
                 IN [p2 EXCEPT !.tracker.current_element_buffer = Some(buffer)]
            ELSE p1

(* GlStateProfiler::record_texture_bind *)
record_texture_bind(p, slot, texture) ==
    IF ~p.enabled THEN p
    ELSE LET p1 == [p EXCEPT !.stats.total_calls = @ + 1,
                             !.stats.texture_binds = @ + 1]
             seen == p1.tracker.current_textures
             p2 == IF slot \in DOMAIN seen /\ seen[slot] = texture
                   THEN [p1 EXCEPT !.stats.redundant_calls = @ + 1,
                                   !.stats.redundant_texture_binds = @ + 1]
                   ELSE p1
         IN [p2 EXCEPT !.tracker.current_textures = MapInsert(@, slot, texture)]

\* (variant: the program just used is not remembered)
record_program_use_forgets(p, program) ==
    IF ~p.enabled THEN p
    ELSE LET p1 == [p EXCEPT !.stats.total_calls = @ + 1,
                             !.stats.program_uses = @ + 1]
         IN IF p1.tracker.current_program = Some(program)
            THEN [p1 EXCEPT !.stats.redundant_calls = @ + 1,
                            !.stats.redundant_program_uses = @ + 1]
            ELSE p1

(* GlStateProfiler::record_program_use *)
record_program_use(p, program) ==
    IF ~p.enabled THEN p
    ELSE LET p1 == [p EXCEPT !.stats.total_calls = @ + 1,
                             !.stats.program_uses = @ + 1]
             p2 == IF p1.tracker.current_program = Some(program)
                   THEN [p1 EXCEPT !.stats.redundant_calls = @ + 1,
                                   !.stats.redundant_program_uses = @ + 1]
                   ELSE p1
         IN [p2 EXCEPT !.tracker.current_program = Some(program)]

\* profiling::get_profiler().lock().map(|mut p| p.record_*(..)): rec is the
\* record_* call with its arguments
notify_profiler(g, rec) ==
    [g EXCEPT
        !.records = Append(@, rec),
        !.profiler = IF rec[1] = "record_buffer_bind" THEN record_buffer_bind(@, rec[2], rec[3])
                     ELSE IF rec[1] = "record_texture_bind" THEN record_texture_bind(@, rec[2], rec[3])
                     ELSE record_program_use(@, rec[2])]

\* The bindings of a GL context right after its creation
GlStateInitial ==
    [ array_buffer |-> 0, element_array_buffer |-> 0, active_texture |-> GL_TEXTURE0,
      textures |-> [unit \in 0 .. MAX_SHADERSTAGE_IMAGES - 1 |->
                        [target \in TextureTargets |-> 0]],
      program |-> 0 ]

\* What a native call does to the bindings of the context
gl_effect(gl, call) ==
    IF call[1] = "glBindBuffer"
    THEN IF call[2] = GL_ARRAY_BUFFER THEN [gl EXCEPT !.array_buffer = call[3]]
         ELSE IF call[2] = GL_ELEMENT_ARRAY_BUFFER
         THEN [gl EXCEPT !.element_array_buffer = call[3]]
         ELSE gl
    ELSE IF call[1] = "glActiveTexture" THEN [gl EXCEPT !.active_texture = call[2]]
    ELSE IF call[1] = "glBindTexture"
    THEN IF call[2] \in TextureTargets
         THEN [gl EXCEPT !.textures[gl.active_texture - GL_TEXTURE0][call[2]] = call[3]]
         ELSE gl
    ELSE IF call[1] = "glUseProgram" THEN [gl EXCEPT !.program = call[2]]
    ELSE gl

\* unsafe { gl...(..) }: the call is issued and takes effect
native_call(g, call) ==
    [g EXCEPT !.gl_calls = Append(@, call), !.gl = gl_effect(@, call)]

CachedTexture(target, texture) == [target |-> target, texture |-> texture]

(* impl Default for GlCache *)
GlCacheDefault ==
    [ stored_index_buffer |-> 0, stored_index_type |-> None,
      stored_vertex_buffer |-> 0, stored_target |-> 0, stored_texture |-> 0,
      index_buffer |-> 0, index_type |-> None, vertex_buffer |-> 0,
      textures |-> [ix \in 0 .. MAX_SHADERSTAGE_IMAGES - 1 |-> CachedTexture(0, 0)],
      current_program |-> 0, viewport |-> <<0, 0, 0, 0>>, scissor |-> None,
      program_dirty |-> TRUE, viewport_dirty |-> TRUE, scissor_dirty |-> TRUE ]

\* (variant: the buffer is bound without looking at the cache)
bind_buffer_unconditional(g, target, buffer, index_type) ==
    LET g1 == notify_profiler(g, <<"record_buffer_bind", target, buffer>>)
        g2 == IF target = GL_ARRAY_BUFFER
              THEN [g1 EXCEPT !.cache.vertex_buffer = buffer]
              ELSE [g1 EXCEPT !.cache.index_buffer = buffer, !.cache.index_type = index_type]
    IN native_call(g2, <<"glBindBuffer", target, buffer>>)

(* GlCache::bind_buffer *)
bind_buffer(g, target, buffer, index_type) ==
    IF target = GL_ARRAY_BUFFER
    THEN IF g.cache.vertex_buffer # buffer
         THEN LET g1 == notify_profiler(g, <<"record_buffer_bind", target, buffer>>)
                  g2 == [g1 EXCEPT !.cache.vertex_buffer = buffer]
              IN native_call(g2, <<"glBindBuffer", target, buffer>>)
         ELSE g
    ELSE LET g3 == IF g.cache.index_buffer # buffer
                   THEN LET g1 == notify_profiler(g, <<"record_buffer_bind", target, buffer>>)
                            g2 == [g1 EXCEPT !.cache.index_buffer = buffer]
                        IN native_call(g2, <<"glBindBuffer", target, buffer>>)
                   ELSE g
         IN [g3 EXCEPT !.cache.index_type = index_type]

(* GlCache::store_buffer_binding *)
store_buffer_binding(g, target) ==
    IF target = GL_ARRAY_BUFFER
    THEN [g EXCEPT !.cache.stored_vertex_buffer = g.cache.vertex_buffer]
    ELSE [g EXCEPT !.cache.stored_index_buffer = g.cache.index_buffer,
                   !.cache.stored_index_type = g.cache.index_type]

(* GlCache::restore_buffer_binding *)
restore_buffer_binding(g, target) ==
    IF target = GL_ARRAY_BUFFER
    THEN IF g.cache.stored_vertex_buffer # 0
         THEN [bind_buffer(g, target, g.cache.stored_vertex_buffer, None)
                  EXCEPT !.cache.stored_vertex_buffer = 0]
         ELSE g
    ELSE IF g.cache.stored_index_buffer # 0
    THEN [bind_buffer(g, target, g.cache.stored_index_buffer, g.cache.stored_index_type)
             EXCEPT !.cache.stored_index_buffer = 0]
    ELSE g

\* (variant: the profiler is told of the bind before the cache is consulted)
bind_texture_records_first(g, slot_index, target, texture) ==
    LET g1 == native_call(g, <<"glActiveTexture", GL_TEXTURE0 + slot_index>>)
        g2 == notify_profiler(g1, <<"record_texture_bind", slot_index, texture>>)
    IN IF \/ g2.cache.textures[slot_index].target # target
          \/ g2.cache.textures[slot_index].texture # texture
       THEN LET target1 == IF target = 0 THEN GL_TEXTURE_2D ELSE target
                g3 == native_call(g2, <<"glBindTexture", target1, texture>>)
            IN [g3 EXCEPT !.cache.textures[slot_index] = CachedTexture(target1, texture)]
       ELSE g2

(* GlCache::bind_texture *)
bind_texture(g, slot_index, target, texture) ==
    LET g1 == native_call(g, <<"glActiveTexture", GL_TEXTURE0 + slot_index>>)
    IN IF \/ g1.cache.textures[slot_index].target # target
          \/ g1.cache.textures[slot_index].texture # texture
       THEN LET g2 == notify_profiler(g1, <<"record_texture_bind", slot_index, texture>>)
                target1 == IF target = 0 THEN GL_TEXTURE_2D ELSE target
                g3 == native_call(g2, <<"glBindTexture", target1, texture>>)
            IN [g3 EXCEPT !.cache.textures[slot_index] = CachedTexture(target1, texture)]
       ELSE g1

(* GlCache::store_texture_binding *)
store_texture_binding(g, slot_index) ==
    [g EXCEPT !.cache.stored_target = g.cache.textures[slot_index].target,
              !.cache.stored_texture = g.cache.textures[slot_index].texture]

(* GlCache::restore_texture_binding *)
restore_texture_binding(g, slot_index) ==
    bind_texture(g, slot_index, g.cache.stored_target, g.cache.stored_texture)

\* (variant: only the vertex target is cleared)
clear_buffer_bindings_vertex_only(g) ==
    [bind_buffer(g, GL_ARRAY_BUFFER, 0, None) EXCEPT !.cache.vertex_buffer = 0]

(* GlCache::clear_buffer_bindings *)
clear_buffer_bindings(g) ==
    LET g1 == [bind_buffer(g, GL_ARRAY_BUFFER, 0, None) EXCEPT !.cache.vertex_buffer = 0]
    IN [bind_buffer(g1, GL_ELEMENT_ARRAY_BUFFER, 0, None) EXCEPT !.cache.index_buffer = 0]

\* the loop of clear_texture_bindings, from slot ix on
RECURSIVE clear_texture_slots(_, _)
clear_texture_slots(g, ix) ==
    IF ix >= MAX_SHADERSTAGE_IMAGES THEN g
    ELSE IF g.cache.textures[ix].texture # 0
    THEN LET g1 == bind_texture(g, ix, g.cache.textures[ix].target, 0)
         IN clear_texture_slots([g1 EXCEPT !.cache.textures[ix] = CachedTexture(0, 0)], ix + 1)
    ELSE clear_texture_slots(g, ix + 1)

(* GlCache::clear_texture_bindings *)
clear_texture_bindings(g) == clear_texture_slots(g, 0)

(* GlCache::use_program *)
use_program(g, program) ==
    IF g.cache.current_program # program \/ g.cache.program_dirty
    THEN LET g1 == notify_profiler(g, <<"record_program_use", program>>)
             g2 == [g1 EXCEPT !.cache.current_program = program,
                              !.cache.program_dirty = FALSE]
         IN native_call(g2, <<"glUseProgram", program>>)
    ELSE g

(* GlCache::apply_viewport *)
apply_viewport(g, x, y, w, h) ==
    LET new_viewport == <<x, y, w, h>>
    IN IF g.cache.viewport # new_viewport \/ g.cache.viewport_dirty
       THEN LET g1 == [g EXCEPT !.cache.viewport = new_viewport,
                                !.cache.viewport_dirty = FALSE]
            IN native_call(g1, <<"glViewport", x, y, w, h>>)
       ELSE g

(* GlCache::apply_scissor *)
apply_scissor(g, x, y, w, h) ==
    LET new_scissor == Some(<<x, y, w, h>>)
    IN IF g.cache.scissor # new_scissor \/ g.cache.scissor_dirty
       THEN LET g1 == [g EXCEPT !.cache.scissor = new_scissor,
                                !.cache.scissor_dirty = FALSE]
                g2 == native_call(g1, <<"glEnable", "GL_SCISSOR_TEST">>)
            IN native_call(g2, <<"glScissor", x, y, w, h>>)
       ELSE g

-----------------------------------------------------------------------------
(* The process-wide profiler instance (profiling.rs, PROFILER, init_profiler, *)
(* get_profiler) as threads see it.  A thread's call goes through the steps   *)
(* of the code: PROFILER.get(), Arc::new, PROFILER.set, lock(), the read and  *)
(* the write of the profiler under the lock, and the drop of the guard.       *)

\* bounds of the model
MaxThreads == 2

MaxThreadCalls == 2

Threads == 1 .. MaxThreads

ThreadIdle(left) ==
    [ pc |-> "idle", call |-> "none", after |-> "idle", arc |-> 0, made |-> 0,
      local |-> None, left |-> left, counted |-> 0 ]

\* (variant: a later set replaces the instance)
once_set_overwrites(cell, value) == Some(value)

\* OnceLock::set: takes the value only while the cell is empty
once_set(cell, value) == IF cell = None THEN Some(value) ELSE cell

\* (variant: lock() does not wait for the holder)
lock_free_never_waits(arc) == TRUE

\* Mutex::lock can return: nobody holds the lock
lock_free(arc) == arc.holder = 0

\* what a call does to the profiler once it holds the lock
under_lock(call, p) ==
    IF call = "record" THEN record_program_use(p, 1)
    ELSE IF call = "enable" THEN enable(p)
    ELSE disable(p)


\* What the client asks for: (buffer_type, usage, size)
Requests ==
    { <<"VertexBuffer", "Dynamic", 1500>> }

\* The world the next call starts from: no native call issued yet
World ==
    [ pools |-> pools, active_buffers |-> active_buffers, stats |-> stats,
      gl_buffers |-> gl_buffers, ret |-> ret, native |-> EmptyBag ]

\* What the pool's native calls leave bound in the context it shares with the
\* GlCache: the only glBindBuffer calls of the pool are those of acquire_buffer's
\* miss path, glBindBuffer(target, new buffer) and then glBindBuffer(target, 0)
pool_binds(gl, calls) ==
    [gl EXCEPT
        !.array_buffer =
            IF <<"glBindBuffer", "GL_ARRAY_BUFFER", 0>> \in BagToSet(calls) THEN 0 ELSE @,
        !.element_array_buffer =
            IF <<"glBindBuffer", "GL_ELEMENT_ARRAY_BUFFER", 0>> \in BagToSet(calls) THEN 0 ELSE @]

Becomes(w) ==
    /\ pools' = w.pools
    /\ active_buffers' = w.active_buffers
    /\ stats' = w.stats
    /\ gl_buffers' = w.gl_buffers
    /\ ret' = w.ret
    /\ native' = w.native
    /\ gl_state' = pool_binds(gl_state, w.native)

WithinCounters(w) ==
    /\ w.stats.cache_hits <= MaxHits
    /\ w.stats.cache_misses <= MaxMisses

Deleted(bag) == {c \in BagToSet(bag) : c[1] = "glDeleteBuffers"}

Idle == [mode |-> "idle", req |-> <<>>, h |-> 0, after |-> "idle"]

\* the GlCache right after GlCache::default(), on a context just created, with
\* the profiler as its first access creates it
CacheFresh ==
    /\ cache = GlCacheDefault
    /\ gl_state = GlStateInitial
    /\ gl_calls = <<>>
    /\ records = <<>>
    /\ profiler = GlStateProfilerNew
    /\ cache_calls = 0
    /\ client = None

\* the process before any thread has touched the profiler
ThreadFresh ==
    /\ PROFILER = None
    /\ arcs = EmptyMap
    /\ threads = [t \in Threads |-> ThreadIdle(MaxThreadCalls)]

\* the CommandBuffer right after CommandBuffer::new()
CmdFresh ==
    /\ commands = CommandBufferNew.commands
    /\ batch_groups = CommandBufferNew.batch_groups
    /\ batch_stats = CommandBufferNew.stats
    /\ current_pipeline = CommandBufferNew.current_pipeline
    /\ current_bindings = CommandBufferNew.current_bindings
    /\ last_state_changes = CommandBufferNew.last_state_changes
    /\ max_batch_size = CommandBufferNew.max_batch_size
    /\ pushed = <<>>
    /\ gl_context = <<>>

Init ==
    /\ pools = BufferPoolNew.pools
    /\ active_buffers = BufferPoolNew.active_buffers
    /\ stats = BufferPoolNew.stats
    /\ gl_buffers = {}
    /\ now = 0
    /\ caller = Idle
    /\ op = [name |-> "new"]
    /\ ret = "unit"
    /\ native = EmptyBag
    /\ CmdFresh
    /\ CacheFresh
    /\ ThreadFresh

Acquire(req, fail) ==
    LET w == acquire_buffer(World, req[1], req[2], req[3], now, fail)
    IN /\ WithinCounters(w)
       /\ Becomes(w)
       /\ op' = [name |-> "acquire_buffer", req |-> req]
       /\ caller' = IF w.ret.ok
                    THEN [mode |-> "acquired", req |-> req, h |-> w.ret.val,
                          after |-> IF caller.req = req THEN caller.mode ELSE "idle"]
                    ELSE IF w.ret.err = "LimitReached"
                    THEN [mode |-> "denied", req |-> req, h |-> 0, after |-> "idle"]
                    ELSE Idle
       /\ UNCHANGED <<now, CmdVars, CacheOwnVars, ThreadVars>>

\* after a denied acquire, a call that destroyed a buffer leaves the client "freed"
AfterOther(w) ==
    IF caller.mode = "denied" /\ Deleted(w.native) # {}
    THEN [caller EXCEPT !.mode = "freed"]
    ELSE Idle

Release(h) ==
    LET w == release_buffer(World, h)
    IN /\ Becomes(w)
       /\ op' = [name |-> "release_buffer", gl_buf |-> h]
       /\ caller' = IF caller.mode = "acquired" /\ caller.h = h
                    THEN [caller EXCEPT !.mode = "released"]
                    ELSE AfterOther(w)
       /\ UNCHANGED <<now, CmdVars, CacheOwnVars, ThreadVars>>

Cleanup ==
    LET w == cleanup_old_buffers(World, now)
    IN /\ Becomes(w)
       /\ op' = [name |-> "cleanup_old_buffers"]
       /\ caller' = AfterOther(w)
       /\ UNCHANGED <<now, CmdVars, CacheOwnVars, ThreadVars>>

ClearAll ==
    LET w == clear_all(World)
    IN /\ Becomes(w)
       /\ op' = [name |-> "clear_all", was_active |-> DOMAIN active_buffers]
       /\ caller' = AfterOther(w)
       /\ UNCHANGED <<now, CmdVars, CacheOwnVars, ThreadVars>>

WarmUp(failing) ==
    LET w == warm_up(World, now, failing)
    IN /\ WithinCounters(w)
       /\ Becomes(w)
       /\ op' = [name |-> "warm_up"]
       /\ caller' = Idle
       /\ UNCHANGED <<now, CmdVars, CacheOwnVars, ThreadVars>>

Tick ==
    /\ now + TickStep <= MaxTicks * TickStep
    /\ now' = now + TickStep
    /\ op' = [name |-> "tick"]
    /\ ret' = "unit"
    /\ native' = EmptyBag
    /\ UNCHANGED <<pools, active_buffers, stats, gl_buffers, caller, CmdVars, CacheVars, ThreadVars>>

Next ==
    \/ \E req \in Requests : \E fail \in BOOLEAN : Acquire(req, fail)
    \/ \E h \in Handles : Release(h)
    \/ Cleanup
    \/ ClearAll
    \/ \E failing \in 0 .. Len(common_configs) : WarmUp(failing)
    \/ Tick

Spec == Init /\ [][Next]_vars

-----------------------------------------------------------------------------
(* A probe of get_size_bucket alone: Init draws two sizes, the action       *)
(* computes both buckets.                                                    *)

MiB == 1024 * 1024

ProbeSizes ==
    { 0, 1, 512, 513, 2048, 2049, 524288, 524289, 2 * MiB, 2 * MiB + 1, 3000000,
      4 * MiB, 4 * MiB + 1, 16 * MiB, 16 * MiB + 1, 32 * MiB, 32 * MiB + 1, 100 * MiB }

BucketInit ==
    /\ pools = BufferPoolNew.pools
    /\ active_buffers = BufferPoolNew.active_buffers
    /\ stats = BufferPoolNew.stats
    /\ gl_buffers = {}
    /\ now = 0
    /\ caller = Idle
    /\ \E a \in ProbeSizes, b \in ProbeSizes : op = [name |-> "input", size |-> a, other |-> b]
    /\ ret = "unit"
    /\ native = EmptyBag
    /\ CmdFresh
    /\ CacheFresh
    /\ ThreadFresh

BucketCall ==
    /\ op.name = "input"
    /\ op' = [op EXCEPT !.name = "get_size_bucket"]
    /\ ret' = <<get_size_bucket(op.size), get_size_bucket(op.other)>>
    /\ UNCHANGED <<PoolVars, CmdVars, CacheVars, ThreadVars>>

BucketNext == BucketCall

BucketSpec == BucketInit /\ [][BucketNext]_vars

-----------------------------------------------------------------------------
(* The command buffer's state machine: a renderer calling the CommandBuffer's *)
(* methods in any order, on a buffer that starts as CommandBuffer::new().     *)

\* two binding sets that differ in their vertex buffer
BindingsA == Bindings(<<1>>, 2, <<>>)

BindingsB == Bindings(<<3>>, 2, <<>>)

\* What the renderer draws: (pipeline, bindings, params).  The first two share
\* every batching key component; each of the others differs from the first in
\* exactly one of them, and the last also in shape.
DrawInputs ==
    { <<"P1", BindingsA, DrawElementsParams(0, 6, 1, "Triangles", 16)>>,
      <<"P1", BindingsA, DrawElementsParams(6, 6, 1, "Triangles", 16)>>,
      <<"P1", BindingsB, DrawElementsParams(0, 6, 1, "Triangles", 16)>>,
      <<"P2", BindingsA, DrawElementsParams(0, 6, 1, "Triangles", 16)>>,
      <<"P1", BindingsA, DrawElementsParams(0, 6, 1, "Lines", 16)>>,
      <<"P1", BindingsA, DrawElementsParams(0, 3, 2, "Triangles", 32)>> }

StateInputs ==
    { Viewport(0, 0, 1, 1), Viewport(0, 0, 2, 2), Scissor(0, 0, 1, 1),
      PipelineChange("P1"), PipelineChange("P2") }

PassInputs == { <<None, "Clear">> }

UniformInputs == { <<7>> }

\* The buffer the next call starts from: nothing pushed or issued yet
CmdWorld ==
    [ commands |-> commands, batch_groups |-> batch_groups, stats |-> batch_stats,
      current_pipeline |-> current_pipeline, current_bindings |-> current_bindings,
      last_state_changes |-> last_state_changes, max_batch_size |-> max_batch_size,
      pushed |-> <<>>, gl |-> <<>>, ret |-> ret ]

CmdBecomes(cb) ==
    /\ commands' = cb.commands
    /\ batch_groups' = cb.batch_groups
    /\ batch_stats' = cb.stats
    /\ current_pipeline' = cb.current_pipeline
    /\ current_bindings' = cb.current_bindings
    /\ last_state_changes' = cb.last_state_changes
    /\ max_batch_size' = cb.max_batch_size
    /\ pushed' = cb.pushed
    /\ gl_context' = cb.gl
    /\ ret' = cb.ret
    /\ UNCHANGED <<PoolVars, CacheVars, ThreadVars>>

CmdWithinCounters(cb) ==
    /\ cb.stats.total_commands <= MaxCommands
    /\ cb.stats.flush_count <= MaxFlushes
    /\ cb.stats.state_changes_eliminated <= MaxEliminated
    /\ cb.stats.batched_commands <= MaxBatched

CallDrawElements(d) ==
    LET cb == draw_elements(CmdWorld, d[1], d[2], d[3])
    IN /\ CmdWithinCounters(cb)
       /\ CmdBecomes(cb)
       /\ op' = [name |-> "draw_elements", pipeline |-> d[1], bindings |-> d[2],
                 params |-> d[3]]

CallStateChange(state_type) ==
    LET cb == state_change(CmdWorld, state_type)
    IN /\ CmdWithinCounters(cb)
       /\ CmdBecomes(cb)
       /\ op' = [name |-> "state_change", state_type |-> state_type]

CallBeginPass(p) ==
    LET cb == begin_pass(CmdWorld, p[1], p[2])
    IN /\ CmdWithinCounters(cb)
       /\ CmdBecomes(cb)
       /\ op' = [name |-> "begin_pass", pass |-> p[1], action |-> p[2]]

CallEndPass ==
    LET cb == end_pass(CmdWorld)
    IN /\ CmdWithinCounters(cb)
       /\ CmdBecomes(cb)
       /\ op' = [name |-> "end_pass"]

CallApplyUniforms(data) ==
    LET cb == apply_uniforms(CmdWorld, data)
    IN /\ CmdWithinCounters(cb)
       /\ CmdBecomes(cb)
       /\ op' = [name |-> "apply_uniforms", data |-> data]

CallOptimizeBatches ==
    LET cb == optimize_batches(CmdWorld)
    IN /\ CmdWithinCounters(cb)
       /\ CmdBecomes(cb)
       /\ op' = [name |-> "optimize_batches"]

CallExecute ==
    LET cb == execute(CmdWorld)
    IN /\ CmdWithinCounters(cb)
       /\ CmdBecomes(cb)
       /\ op' = [name |-> "execute"]

CallFlush ==
    LET cb == flush(CmdWorld)
    IN /\ CmdWithinCounters(cb)
       /\ CmdBecomes(cb)
       /\ op' = [name |-> "flush"]

CmdNext ==
    \/ \E d \in DrawInputs : CallDrawElements(d)
    \/ \E state_type \in StateInputs : CallStateChange(state_type)
    \/ \E p \in PassInputs : CallBeginPass(p)
    \/ CallEndPass
    \/ \E data \in UniformInputs : CallApplyUniforms(data)
    \/ CallOptimizeBatches
    \/ CallExecute
    \/ CallFlush

CmdSpec == Init /\ [][CmdNext]_vars

-----------------------------------------------------------------------------
(* One frame of a renderer that draws with one pipeline and alternates      *)
(* between two binding sets, recorded into a CommandBuffer whose ceiling is *)
(* the full MAX_BATCH_SIZE, then optimized.                                 *)

\* const MAX_BATCH_SIZE as the repository sets it
MAX_BATCH_SIZE_FULL == 1024

\* the draws of the frame
FrameDraws == 20

FramePipelines == {"P1", "P2"}

FrameParams ==
    { DrawElementsParams(0, 3, 1, primitive_type, index_type) :
          primitive_type \in {"Triangles", "Lines"}, index_type \in {16, 32} }

OtherBindings(bindings) == IF bindings = BindingsA THEN BindingsB ELSE BindingsA

FrameInit ==
    /\ pools = BufferPoolNew.pools
    /\ active_buffers = BufferPoolNew.active_buffers
    /\ stats = BufferPoolNew.stats
    /\ gl_buffers = {}
    /\ now = 0
    /\ caller = Idle
    /\ op = [name |-> "new"]
    /\ ret = "unit"
    /\ native = EmptyBag
    /\ commands = CommandBufferNew.commands
    /\ batch_groups = CommandBufferNew.batch_groups
    /\ batch_stats = CommandBufferNew.stats
    /\ current_pipeline = CommandBufferNew.current_pipeline
    /\ current_bindings = CommandBufferNew.current_bindings
    /\ last_state_changes = CommandBufferNew.last_state_changes
    /\ max_batch_size = MAX_BATCH_SIZE_FULL
    /\ pushed = <<>>
    /\ gl_context = <<>>
    /\ CacheFresh
    /\ ThreadFresh

\* the next draw of the frame: the first is free, the following ones keep its
\* pipeline and parameters and take the other binding set
FrameDraw(pipeline, bindings, params) ==
    LET cb == draw_elements(CmdWorld, pipeline, bindings, params)
    IN /\ Len(SelectSeq(commands, LAMBDA c : c.tag = "DrawElements")) < FrameDraws
       /\ IF op.name = "draw_elements"
          THEN /\ pipeline = op.pipeline
               /\ params = op.params
               /\ bindings = OtherBindings(op.bindings)
          ELSE op.name = "new"
       /\ CmdBecomes(cb)
       /\ op' = [name |-> "draw_elements", pipeline |-> pipeline, bindings |-> bindings,
                 params |-> params]

FrameOptimize ==
    LET cb == optimize_batches(CmdWorld)
    IN /\ op.name = "draw_elements"
       /\ Len(SelectSeq(commands, LAMBDA c : c.tag = "DrawElements")) = FrameDraws
       /\ CmdBecomes(cb)
       /\ op' = [name |-> "optimize_batches"]

FrameNext ==
    \/ \E pipeline \in FramePipelines, bindings \in {BindingsA, BindingsB},
          params \in FrameParams : FrameDraw(pipeline, bindings, params)
    \/ FrameOptimize

FrameSpec == FrameInit /\ [][FrameNext]_vars

-----------------------------------------------------------------------------
(* The state machine of batching: a command buffer with the ceiling of the   *)
(* source (1024 commands, out of reach here), so that a queue holds several  *)
(* groups of several draws when it is optimized or executed.                 *)

BatchNext ==
    \/ \E d \in DrawInputs : CallDrawElements(d)
    \/ \E data \in UniformInputs : CallApplyUniforms(data)
    \/ CallOptimizeBatches
    \/ CallExecute

BatchSpec == FrameInit /\ [][BatchNext]_vars

-----------------------------------------------------------------------------
(* The state machine of the State Cache: a renderer calling the GlCache     *)
(* methods in any order, every bind of the context going through the cache. *)

BufferTargets == {GL_ARRAY_BUFFER, GL_ELEMENT_ARRAY_BUFFER}

\* bind_buffer(target, buffer, index_type)
BufferInputs ==
    { <<GL_ARRAY_BUFFER, buffer, None>> : buffer \in {0, 1} }
        \cup { <<GL_ELEMENT_ARRAY_BUFFER, buffer, index_type>> :
                   buffer \in {0, 1}, index_type \in {None, Some(16)} }

TextureSlots == 0 .. MAX_SHADERSTAGE_IMAGES - 1

\* bind_texture(slot_index, target, texture)
TextureInputs == TextureSlots \X ({0} \cup TextureTargets) \X {0, 1}

ProgramInputs == {0, 1}

\* apply_viewport(x, y, w, h) and apply_scissor(x, y, w, h)
RectInputs == { <<0, 0, 0, 0>>, <<0, 0, 1, 1>> }

\* the cached and the native handle of a buffer target
CachedBuffer(c, target) ==
    IF target = GL_ARRAY_BUFFER THEN c.vertex_buffer ELSE c.index_buffer

NativeBuffer(gl, target) ==
    IF target = GL_ARRAY_BUFFER THEN gl.array_buffer ELSE gl.element_array_buffer

\* The renderer's scoped override (client): open from a store_*_binding, with
\* what was bound on that target or slot then, while only binds on that target
\* or slot follow; the restore, or any other call, closes it.

\* The world the next call starts from: nothing issued or recorded yet
CacheWorld ==
    [ cache |-> cache, gl |-> gl_state, gl_calls |-> <<>>, records |-> <<>>,
      profiler |-> profiler ]

CacheBecomes(g) ==
    /\ cache_calls < MaxCalls
    /\ cache_calls' = cache_calls + 1
    /\ cache' = g.cache
    /\ gl_state' = g.gl
    /\ gl_calls' = g.gl_calls
    /\ records' = g.records
    /\ profiler' = g.profiler
    /\ ret' = "unit"
    /\ UNCHANGED <<PoolVars, CmdVars, ThreadVars>>

CallBindBuffer(b) ==
    /\ CacheBecomes(bind_buffer(CacheWorld, b[1], b[2], b[3]))
    /\ op' = [name |-> "bind_buffer", target |-> b[1], buffer |-> b[2],
              index_type |-> b[3], found |-> CachedBuffer(cache, b[1])]
    /\ client' = IF client = None \/ client.val.on # <<"buffer", b[1]>> THEN None ELSE client

CallStoreBufferBinding(target) ==
    /\ CacheBecomes(store_buffer_binding(CacheWorld, target))
    /\ op' = [name |-> "store_buffer_binding", target |-> target]
    /\ client' = Some([on |-> <<"buffer", target>>,
                        cached |-> CachedBuffer(cache, target),
                        native |-> NativeBuffer(gl_state, target)])

CallRestoreBufferBinding(target) ==
    /\ CacheBecomes(restore_buffer_binding(CacheWorld, target))
    /\ op' = [name |-> "restore_buffer_binding", target |-> target]
    /\ client' = None

CallBindTexture(t) ==
    /\ CacheBecomes(bind_texture(CacheWorld, t[1], t[2], t[3]))
    /\ op' = [name |-> "bind_texture", slot_index |-> t[1], target |-> t[2],
              texture |-> t[3]]
    /\ client' = IF client = None \/ client.val.on # <<"texture", t[1]>> THEN None ELSE client

CallStoreTextureBinding(slot_index) ==
    /\ CacheBecomes(store_texture_binding(CacheWorld, slot_index))
    /\ op' = [name |-> "store_texture_binding", slot_index |-> slot_index]
    /\ client' = Some([on |-> <<"texture", slot_index>>,
                        cached |-> cache.textures[slot_index],
                        native |-> gl_state.textures[slot_index]])

CallRestoreTextureBinding(slot_index) ==
    /\ CacheBecomes(restore_texture_binding(CacheWorld, slot_index))
    /\ op' = [name |-> "restore_texture_binding", slot_index |-> slot_index]
    /\ client' = None

CallClearBufferBindings ==
    /\ CacheBecomes(clear_buffer_bindings(CacheWorld))
    /\ op' = [name |-> "clear_buffer_bindings"]
    /\ client' = None

CallClearTextureBindings ==
    /\ CacheBecomes(clear_texture_bindings(CacheWorld))
    /\ op' = [name |-> "clear_texture_bindings"]
    /\ client' = None

CallUseProgram(program) ==
    /\ CacheBecomes(use_program(CacheWorld, program))
    /\ op' = [name |-> "use_program", program |-> program]
    /\ client' = None

CallApplyViewport(r) ==
    /\ CacheBecomes(apply_viewport(CacheWorld, r[1], r[2], r[3], r[4]))
    /\ op' = [name |-> "apply_viewport", rect |-> r]
    /\ client' = None

CallApplyScissor(r) ==
    /\ CacheBecomes(apply_scissor(CacheWorld, r[1], r[2], r[3], r[4]))
    /\ op' = [name |-> "apply_scissor", rect |-> r]
    /\ client' = None

\* profiling::enable_profiling and profiling::disable_profiling
CallEnableProfiling ==
    /\ profiler' = enable(profiler)
    /\ op' = [name |-> "enable_profiling"]
    /\ gl_calls' = <<>>
    /\ records' = <<>>
    /\ ret' = "unit"
    /\ UNCHANGED <<PoolVars, CmdVars, ThreadVars, cache, gl_state, cache_calls, client>>

CallDisableProfiling ==
    /\ profiler' = disable(profiler)
    /\ op' = [name |-> "disable_profiling"]
    /\ gl_calls' = <<>>
    /\ records' = <<>>
    /\ ret' = "unit"
    /\ UNCHANGED <<PoolVars, CmdVars, ThreadVars, cache, gl_state, cache_calls, client>>

CacheNext ==
    \/ \E b \in BufferInputs : CallBindBuffer(b)
    \/ \E target \in BufferTargets : CallStoreBufferBinding(target)
    \/ \E target \in BufferTargets : CallRestoreBufferBinding(target)
    \/ \E t \in TextureInputs : CallBindTexture(t)
    \/ \E slot_index \in TextureSlots : CallStoreTextureBinding(slot_index)
    \/ \E slot_index \in TextureSlots : CallRestoreTextureBinding(slot_index)
    \/ CallClearBufferBindings
    \/ CallClearTextureBindings
    \/ \E program \in ProgramInputs : CallUseProgram(program)
    \/ \E r \in RectInputs : CallApplyViewport(r)
    \/ \E r \in RectInputs : CallApplyScissor(r)
    \/ CallEnableProfiling
    \/ CallDisableProfiling

CacheSpec == Init /\ [][CacheNext]_vars

-----------------------------------------------------------------------------
(* The state machine of the profiler alone: call sites that record binds    *)
(* and uses directly (the profile_*! macros), and the profiling switches.   *)

MaxRecords == 4

\* record_buffer_bind(target, buffer): both tracked targets and an unknown one
RecordBufferInputs == (BufferTargets \cup {0}) \X {0, 1}

\* record_texture_bind(slot, texture)
RecordTextureInputs == TextureSlots \X {0, 1}

\* a call on the profiler: the cache and the context are not involved
ProfilerBecomes(p, rec) ==
    /\ p.stats.total_calls <= MaxRecords
    /\ profiler' = p
    /\ records' = rec
    /\ gl_calls' = <<>>
    /\ ret' = "unit"
    /\ UNCHANGED <<PoolVars, CmdVars, ThreadVars, cache, gl_state, cache_calls, client>>

CallRecordBufferBind(b) ==
    /\ ProfilerBecomes(record_buffer_bind(profiler, b[1], b[2]),
                       << <<"record_buffer_bind", b[1], b[2]>> >>)
    /\ op' = [name |-> "record_buffer_bind", target |-> b[1], buffer |-> b[2]]

CallRecordTextureBind(t) ==
    /\ ProfilerBecomes(record_texture_bind(profiler, t[1], t[2]),
                       << <<"record_texture_bind", t[1], t[2]>> >>)
    /\ op' = [name |-> "record_texture_bind", slot |-> t[1], texture |-> t[2]]

CallRecordProgramUse(program) ==
    /\ ProfilerBecomes(record_program_use(profiler, program),
                       << <<"record_program_use", program>> >>)
    /\ op' = [name |-> "record_program_use", program |-> program]

\* profiling::reset_profiling
CallResetProfiling ==
    /\ ProfilerBecomes(reset(profiler), <<>>)
    /\ op' = [name |-> "reset_profiling"]

ProfilerNext ==
    \/ \E b \in RecordBufferInputs : CallRecordBufferBind(b)
    \/ \E t \in RecordTextureInputs : CallRecordTextureBind(t)
    \/ \E program \in ProgramInputs : CallRecordProgramUse(program)
    \/ CallEnableProfiling
    \/ CallDisableProfiling
    \/ CallResetProfiling

ProfilerSpec == Init /\ [][ProfilerNext]_vars

-----------------------------------------------------------------------------
(* The state machine of a renderer that binds buffers through the GlCache    *)
(* while a BufferPool allocates in the same context.                         *)

SharedNext ==
    \/ \E req \in Requests, fail \in BOOLEAN : Acquire(req, fail)
    \/ \E b \in BufferInputs : CallBindBuffer(b)

SharedSpec == Init /\ [][SharedNext]_vars

-----------------------------------------------------------------------------
(* The state machine of the threads that reach the profiler. *)

ThreadCalls == {"init_profiler", "record", "enable", "disable"}

ThreadBecomes(t, step, th) ==
    /\ threads' = [threads EXCEPT ![t] = th]
    /\ op' = [name |-> step, thread |-> t]
    /\ ret' = "unit"
    /\ UNCHANGED <<PoolVars, CmdVars, CacheVars>>

\* a thread starts init_profiler(), or a call that begins with get_profiler()
StartCall(t, call) ==
    /\ threads[t].pc = "idle" /\ threads[t].left > 0
    /\ ThreadBecomes(t, "call", [threads[t] EXCEPT
            !.call = call,
            !.pc = IF call = "init_profiler" THEN "new" ELSE "get",
            !.after = "idle"])
    /\ UNCHANGED <<PROFILER, arcs>>

\* get_profiler: PROFILER.get(), and the clone of what it found
OnceGet(t) ==
    /\ threads[t].pc = "get"
    /\ ThreadBecomes(t, "get",
            IF PROFILER # None
            THEN [threads[t] EXCEPT !.arc = PROFILER.val, !.pc = "lock"]
            ELSE [threads[t] EXCEPT !.pc = "new", !.after = "unwrap"])
    /\ UNCHANGED <<PROFILER, arcs>>

\* init_profiler: Arc::new(Mutex::new(GlStateProfiler::new()))
ArcNew(t) ==
    LET free == (1 .. (MaxThreads + 1)) \ DOMAIN arcs
        id == CHOOSE i \in free : \A j \in free : i <= j
    IN /\ threads[t].pc = "new"
       /\ arcs' = MapInsert(arcs, id, [holder |-> 0, data |-> GlStateProfilerNew])
       /\ ThreadBecomes(t, "new", [threads[t] EXCEPT !.made = id, !.pc = "set"])
       /\ UNCHANGED PROFILER

\* init_profiler: PROFILER.set(..).unwrap_or(()); a value not taken is dropped
OnceSet(t) ==
    LET th == threads[t]
        cell == once_set(PROFILER, th.made)
    IN /\ th.pc = "set"
       /\ PROFILER' = cell
       /\ arcs' = [id \in {i \in DOMAIN arcs :
                               i = cell.val \/ \E u \in Threads \ {t} :
                                                   i \in {threads[u].arc, threads[u].made}} |->
                      arcs[id]]
       /\ ThreadBecomes(t, "set",
               IF th.after = "idle"
               THEN [th EXCEPT !.pc = "idle", !.call = "none", !.made = 0, !.left = @ - 1]
               ELSE [th EXCEPT !.pc = "unwrap", !.made = 0])

\* get_profiler: PROFILER.get().unwrap() after init_profiler(), and the clone
OnceUnwrap(t) ==
    /\ threads[t].pc = "unwrap"
    /\ ThreadBecomes(t, "unwrap", [threads[t] EXCEPT
            !.arc = PROFILER.val, !.pc = "lock"])
    /\ UNCHANGED <<PROFILER, arcs>>

\* .lock(): returns once nobody holds the lock
Lock(t) ==
    /\ threads[t].pc = "lock"
    /\ lock_free(arcs[threads[t].arc])
    /\ arcs' = [arcs EXCEPT ![threads[t].arc].holder = t]
    /\ ThreadBecomes(t, "lock", [threads[t] EXCEPT !.pc = "read"])
    /\ UNCHANGED PROFILER

\* under the lock: the profiler is read ...
Read(t) ==
    /\ threads[t].pc = "read"
    /\ ThreadBecomes(t, "read", [threads[t] EXCEPT
            !.local = Some(arcs[threads[t].arc].data), !.pc = "write"])
    /\ UNCHANGED <<PROFILER, arcs>>

\* ... and written back as the call leaves it
Write(t) ==
    LET th == threads[t]
    IN /\ th.pc = "write"
       /\ arcs' = [arcs EXCEPT ![th.arc].data = under_lock(th.call, th.local.val)]
       /\ ThreadBecomes(t, "write", [th EXCEPT
               !.counted = IF th.call = "record" /\ th.local.val.enabled THEN @ + 1 ELSE @,
               !.local = None, !.pc = "unlock"])
       /\ UNCHANGED PROFILER

\* the guard and the Arc clone are dropped at the end of the statement
Unlock(t) ==
    LET th == threads[t]
    IN /\ th.pc = "unlock"
       /\ arcs' = [arcs EXCEPT ![th.arc].holder = IF @ = t THEN 0 ELSE @]
       /\ ThreadBecomes(t, "unlock", [th EXCEPT
               !.pc = "idle", !.call = "none", !.arc = 0, !.left = @ - 1])
       /\ UNCHANGED PROFILER

ThreadNext ==
    \E t \in Threads :
        \/ \E call \in ThreadCalls : StartCall(t, call)
        \/ OnceGet(t)
        \/ ArcNew(t)
        \/ OnceSet(t)
        \/ OnceUnwrap(t)
        \/ Lock(t)
        \/ Read(t)
        \/ Write(t)
        \/ Unlock(t)

ThreadSpec == Init /\ [][ThreadNext]_vars

-----------------------------------------------------------------------------
(* Vocabulary of the properties *)

KeyOf(req) == PoolKey(req[1], req[2], get_size_bucket(req[3]))

\* every free-list entry, over all keys
Pooled == Flatten(pools)

PooledHandles == {Pooled[i].gl_buf : i \in 1 .. Len(Pooled)}

\* acquire_buffer(req) would find no free buffer
WouldMiss(req) == KeyOf(req) \notin DOMAIN pools \/ pools[KeyOf(req)] = <<>>

Allocated(bag) == {c \in BagToSet(bag) : c[1] \in {"glGenBuffers", "glBufferData"}}

PoolUnchanged == UNCHANGED <<pools, active_buffers, gl_buffers>>

-----------------------------------------------------------------------------
(* Properties of the buffer pool *)

\* what the pool holds, counted three ways, is within the cap
C1_Held ==
    /\ Len(Pooled) + Cardinality(DOMAIN active_buffers) <= MAX_TOTAL_BUFFERS
    /\ stats.total_buffers <= MAX_TOTAL_BUFFERS
    /\ Cardinality(gl_buffers) <= MAX_TOTAL_BUFFERS

\* C1: the pool never holds more than MAX_TOTAL_BUFFERS buffers (free lists plus
\* active set, the tracked stats.total_buffers, and the native buffers it keeps
\* alive), and an acquire_buffer that misses at the cap returns the limit error
\* without allocating.
C1_TotalNeverExceedsCap ==
    [][ /\ C1_Held'
        /\ ( /\ op'.name = "acquire_buffer"
             /\ WouldMiss(op'.req)
             /\ stats.total_buffers >= MAX_TOTAL_BUFFERS )
           => (ret' = Err("LimitReached") /\ Allocated(native') = {}) ]_vars

\* C1 witness: an acquire was refused with the pool holding exactly the cap
C1_Witness ==
    /\ op.name = "acquire_buffer"
    /\ ret = Err("LimitReached")
    /\ Len(Pooled) + Cardinality(DOMAIN active_buffers) = MAX_TOTAL_BUFFERS

\* C2: every handle is in at most one ownership location: not both active and
\* pooled, not twice in the free lists, and nowhere once its native buffer is
\* destroyed.
C2_ExclusiveOwnership ==
    /\ \A i, j \in 1 .. Len(Pooled) : Pooled[i].gl_buf = Pooled[j].gl_buf => i = j
    /\ PooledHandles \cap DOMAIN active_buffers = {}
    /\ \A h \in DOMAIN active_buffers : active_buffers[h].gl_buf = h
    /\ PooledHandles \cup DOMAIN active_buffers \subseteq gl_buffers

\* C2 witness: a cleanup destroyed a buffer while others stay pooled and active
C2_Witness ==
    /\ op.name = "cleanup_old_buffers"
    /\ Deleted(native) # {}
    /\ PooledHandles # {}
    /\ DOMAIN active_buffers # {}

\* C3: release_buffer of a handle that is not active returns the not-found error
\* and changes no counter, no free list, not the active set, and issues no
\* native call.
C3_ReleaseNotActive ==
    [][ (op'.name = "release_buffer" /\ op'.gl_buf \notin DOMAIN active_buffers)
        => ( /\ ret' = Err("NotFound")
             /\ stats' = stats
             /\ PoolUnchanged
             /\ native' = EmptyBag ) ]_vars

\* C3 witness: a second release of a handle that already sits in a free list,
\* at a moment the derived statistics are stale
C3_Witness ==
    /\ op.name = "release_buffer"
    /\ ret = Err("NotFound")
    /\ op.gl_buf \in PooledHandles
    /\ stats.gpu_allocations_saved # stats.cache_hits

\* C4: acquire, release of the returned handle, then the same acquire again: the
\* second acquire is a cache hit, allocates nothing natively, and returns a
\* buffer of the request's kind, usage and bucket.
C4_ReacquireHits ==
    [][ ( /\ caller.mode = "released"
          /\ op'.name = "acquire_buffer"
          /\ op'.req = caller.req )
        => ( /\ ret'.ok
             /\ stats'.cache_hits = stats.cache_hits + 1
             /\ stats'.cache_misses = stats.cache_misses
             /\ stats'.pool_allocations = stats.pool_allocations
             /\ Allocated(native') = {}
             /\ ret'.val \in DOMAIN active_buffers'
             /\ LET b == active_buffers'[ret'.val]
                IN PoolKey(b.buffer_type, b.usage, b.size) = KeyOf(op'.req) ) ]_vars

\* C4 witness: the second acquire of such a cycle has returned
C4_Witness ==
    /\ op.name = "acquire_buffer"
    /\ caller.mode = "acquired"
    /\ caller.after = "released"

\* C5: no free list holds more than MAX_POOL_SIZE buffers; a release whose free
\* list is full destroys the native buffer, does not enqueue it, and decrements
\* total_buffers, buffers_in_use and memory_usage_bytes.
C5_FreeListBounded ==
    [][ /\ \A k \in DOMAIN pools' : Len(pools'[k]) <= MAX_POOL_SIZE
        /\ ( /\ op'.name = "release_buffer"
             /\ op'.gl_buf \in DOMAIN active_buffers
             /\ LET b == active_buffers[op'.gl_buf]
                    k == PoolKey(b.buffer_type, b.usage, b.size)
                IN k \in DOMAIN pools /\ Len(pools[k]) >= MAX_POOL_SIZE )
           => ( /\ CopiesIn(<<"glDeleteBuffers", op'.gl_buf>>, native') = 1
                /\ op'.gl_buf \notin gl_buffers'
                /\ pools' = pools
                /\ stats'.total_buffers = stats.total_buffers - 1
                /\ stats'.buffers_in_use = stats.buffers_in_use - 1
                /\ stats'.memory_usage_bytes =
                       stats.memory_usage_bytes - active_buffers[op'.gl_buf].size ) ]_vars

\* C5 witness: a release found its free list full and destroyed the buffer
C5_Witness ==
    /\ op.name = "release_buffer"
    /\ ret.ok
    /\ Deleted(native) # {}
    /\ \E k \in DOMAIN pools : Len(pools[k]) = MAX_POOL_SIZE

\* C6: an acquire that misses at the cap fails with the limit error and changes
\* nothing but cache_misses (+1); once a buffer has been destroyed the same
\* acquire succeeds (provided the native allocation itself does not fail).
C6_DeniedAtCap ==
    [][ /\ ( /\ op'.name = "acquire_buffer"
             /\ WouldMiss(op'.req)
             /\ stats.total_buffers >= MAX_TOTAL_BUFFERS )
           => ( /\ ret' = Err("LimitReached")
                /\ stats' = [stats EXCEPT !.cache_misses = @ + 1]
                /\ PoolUnchanged
                /\ native' = EmptyBag )
        /\ ( /\ caller.mode = "freed"
             /\ op'.name = "acquire_buffer"
             /\ op'.req = caller.req
             /\ CopiesIn(<<"glGenBuffers", 0>>, native') = 0 )
           => ret'.ok ]_vars

\* C6 witness: the acquire that was denied at the cap has succeeded after a
\* buffer was destroyed
C6_Witness ==
    /\ op.name = "acquire_buffer"
    /\ caller.mode = "acquired"
    /\ caller.after = "freed"

\* C7: the bucket is at least the requested size, for every size.
C7_BucketHoldsRequest ==
    op.name = "get_size_bucket" => ret[1] >= op.size

\* the smallest 2 MiB * 2^k that is >= size
RECURSIVE NextDoubling(_, _)
NextDoubling(size, b) == IF b >= size THEN b ELSE NextDoubling(size, 2 * b)

\* C8: get_size_bucket is monotonic; up to 2 MiB it is the smallest ladder entry
\* >= size, beyond the ladder the next doubling of 2 MiB; 1 -> 512, 513 -> 2048,
\* 2097152 -> 2097152, 3000000 -> 4194304.
C8_BucketLadder ==
    op.name = "get_size_bucket" =>
        /\ op.size <= op.other => ret[1] <= ret[2]
        /\ op.size <= 2 * MiB =>
             /\ \E i \in 1 .. Len(SIZE_BUCKETS) : ret[1] = SIZE_BUCKETS[i]
             /\ ret[1] >= op.size
             /\ \A i \in 1 .. Len(SIZE_BUCKETS) :
                    SIZE_BUCKETS[i] >= op.size => SIZE_BUCKETS[i] >= ret[1]
        /\ op.size > 2 * MiB => ret[1] = NextDoubling(op.size, 2 * MiB)
        /\ op.size = 1 => ret[1] = 512
        /\ op.size = 513 => ret[1] = 2048
        /\ op.size = 2097152 => ret[1] = 2097152
        /\ op.size = 3000000 => ret[1] = 4194304

\* C9: no bucket is larger than 16 MiB.
C9_BucketCapped ==
    op.name = "get_size_bucket" => ret[1] <= BUCKET_CAP

\* C10: cleanup_old_buffers never evicts an entry released less than max_age
\* ago, however long before its release it was acquired; the entry stays in its
\* free list unchanged.  (Stated for an entry released by the call just before
\* the cleanup, with no time passing in between.)
C10_RecentReleaseRetained ==
    [][ ( /\ op.name = "release_buffer"
          /\ ret = Ok("unit")
          /\ op.gl_buf \in PooledHandles
          /\ now' = now
          /\ op'.name = "cleanup_old_buffers" )
        => \E k \in DOMAIN pools :
              /\ k \in DOMAIN pools'
              /\ \E i \in 1 .. Len(pools[k]) :
                    /\ pools[k][i].gl_buf = op.gl_buf
                    /\ \E j \in 1 .. Len(pools'[k]) : pools'[k][j] = pools[k][i] ]_vars

\* the byte sizes of the free-list entries, summed
PooledBytes(s) == SeqSum([i \in 1 .. Len(s) |-> s[i].size])

\* C11: cleanup_old_buffers never destroys or modifies an active buffer, however
\* long ago it was acquired: the active set, buffers_in_use, cache_hits,
\* cache_misses and pool_allocations are unchanged, and total_buffers,
\* buffers_available and memory_usage_bytes decrease by exactly the number and
\* the summed sizes of the evicted free-list entries.
C11_CleanupSparesActive ==
    [][ op'.name = "cleanup_old_buffers"
        => ( /\ active_buffers' = active_buffers
             /\ DOMAIN active_buffers \subseteq gl_buffers'
             /\ \A h \in DOMAIN active_buffers :
                    CopiesIn(<<"glDeleteBuffers", h>>, native') = 0
             /\ stats'.buffers_in_use = stats.buffers_in_use
             /\ stats'.cache_hits = stats.cache_hits
             /\ stats'.cache_misses = stats.cache_misses
             /\ stats'.pool_allocations = stats.pool_allocations
             /\ LET evicted == Len(Pooled) - Len(Pooled')
                    bytes == PooledBytes(Pooled) - PooledBytes(Pooled')
                IN /\ Cardinality(Deleted(native')) = evicted
                   /\ stats'.total_buffers = stats.total_buffers - evicted
                   /\ stats'.buffers_available = stats.buffers_available - evicted
                   /\ stats'.memory_usage_bytes = stats.memory_usage_bytes - bytes ) ]_vars

\* C11 witness: a cleanup evicted a free-list entry while a buffer acquired at
\* least max_age ago is still active
C11_Witness ==
    /\ op.name = "cleanup_old_buffers"
    /\ Deleted(native) # {}
    /\ \E h \in DOMAIN active_buffers : now - active_buffers[h].last_used >= max_age

\* C12: after clear_all every free list and the active set are empty, every
\* buffer that was pooled or active has been natively deleted exactly once,
\* total_buffers, buffers_in_use, buffers_available and memory_usage_bytes are 0
\* and cache_hits, cache_misses and pool_allocations keep their values; a
\* release_buffer that follows, of a handle active before, fails with not-found.
C12_ClearAllEmpties ==
    [][ /\ op'.name = "clear_all"
           => ( /\ pools' = EmptyMap
                /\ active_buffers' = EmptyMap
                /\ \A h \in PooledHandles \cup DOMAIN active_buffers :
                       /\ CopiesIn(<<"glDeleteBuffers", h>>, native') = 1
                       /\ h \notin gl_buffers'
                /\ stats'.total_buffers = 0
                /\ stats'.buffers_in_use = 0
                /\ stats'.buffers_available = 0
                /\ stats'.memory_usage_bytes = 0
                /\ stats'.cache_hits = stats.cache_hits
                /\ stats'.cache_misses = stats.cache_misses
                /\ stats'.pool_allocations = stats.pool_allocations )
        /\ ( /\ op.name = "clear_all"
             /\ op'.name = "release_buffer"
             /\ op'.gl_buf \in op.was_active )
           => ret' = Err("NotFound") ]_vars

\* C12 witness: a clear_all destroyed pooled and active buffers of a pool whose
\* history counters are not zero
C12_Witness ==
    /\ op.name = "clear_all"
    /\ op.was_active # {}
    /\ Cardinality(Deleted(native)) > Cardinality(op.was_active)
    /\ stats.cache_hits > 0
    /\ stats.pool_allocations > 0

\* C13: warm_up on an empty pool that returns Ok leaves MIN_POOL_SIZE available
\* buffers in the free list of each of the three common configurations.
C13_WarmUpFillsMinimum ==
    [][ ( /\ op'.name = "warm_up"
          /\ Pooled = <<>>
          /\ active_buffers = EmptyMap
          /\ ret' = Ok("unit") )
        => \A c \in 1 .. Len(common_configs) :
              /\ KeyOf(common_configs[c]) \in DOMAIN pools'
              /\ Len(pools'[KeyOf(common_configs[c])]) = MIN_POOL_SIZE ]_vars

-----------------------------------------------------------------------------
(* Vocabulary of the command buffer's properties *)

IsDraw(c) == c.tag = "DrawElements"

IsNonDraw(c) == c.tag # "DrawElements"

\* the positions of the DrawElements commands in a queue
DrawsOf(q) == {i \in 1 .. Len(q) : IsDraw(q[i])}

\* the batching key of a DrawElements command, and of a BatchGroup
DrawKey(c) == <<c.pipeline, c.bindings, c.params.primitive_type, c.params.index_type>>

GroupKey(g) == <<g.pipeline, g.bindings, g.primitive_type, g.index_type>>

SetMax(S) == CHOOSE x \in S : \A y \in S : y <= x

\* the calls that record a command
RecordingCalls ==
    {"draw_elements", "state_change", "begin_pass", "end_pass", "apply_uniforms"}

\* state_change(state_type) is redundant for the buffer as it is
IsRedundant(state_type) ==
    /\ state_key(state_type) \in DOMAIN last_state_changes
    /\ last_state_changes[state_key(state_type)] = state_type

-----------------------------------------------------------------------------
(* Properties of the command buffer *)

\* C14: after optimize_batches two pending DrawElements commands are in the same
\* BatchGroup iff their (pipeline, bindings, primitive type, index type) are
\* equal: no two groups have the same key, and the group of a key has exactly
\* as many draw entries as there are pending draws with that key.
C14_GroupsByExactKey ==
    [][ op'.name = "optimize_batches"
        => ( /\ \A g, h \in 1 .. Len(batch_groups') :
                    GroupKey(batch_groups'[g]) = GroupKey(batch_groups'[h]) => g = h
             /\ \A i \in DrawsOf(commands') :
                    \E g \in 1 .. Len(batch_groups') :
                       GroupKey(batch_groups'[g]) = DrawKey(commands'[i])
             /\ \A g \in 1 .. Len(batch_groups') :
                    Len(batch_groups'[g].draws) =
                       Cardinality({i \in DrawsOf(commands') :
                                      DrawKey(commands'[i]) = GroupKey(batch_groups'[g])}) ) ]_vars

\* C14 witness: optimize_batches has put two pending draws into one group
C14_Witness ==
    /\ op.name = "optimize_batches"
    /\ Cardinality(DrawsOf(commands)) = 2
    /\ Len(batch_groups) = 1
    /\ Len(batch_groups[1].draws) = 2

\* the recorded StateChange commands of the given kinds, as execute replays them
ReplayedStates(q, kinds) ==
    LET Wanted(c) == c.tag = "StateChange" /\ c.state_type.kind \in kinds
        sc == SelectSeq(q, Wanted)
    IN [i \in 1 .. Len(sc) |-> execute_state_change(sc[i].state_type)]

\* C15: of two consecutive state_change calls with an identical value, the first
\* records one StateChange (unless it is itself redundant) and the second
\* records none: it increments state_changes_eliminated by one and leaves the
\* queue and total_commands unchanged; execute replays the viewport and scissor
\* changes that are in the queue and nothing else of their kind.
C15_RepeatedStateChangeDropped ==
    [][ /\ (op'.name = "state_change" /\ ~IsRedundant(op'.state_type))
           => ( /\ pushed' = <<StateChange(op'.state_type)>>
                /\ batch_stats'.total_commands = batch_stats.total_commands + 1
                /\ batch_stats'.state_changes_eliminated =
                       batch_stats.state_changes_eliminated )
        /\ ( /\ op.name = "state_change"
             /\ op'.name = "state_change"
             /\ op'.state_type = op.state_type )
           => ( /\ pushed' = <<>>
                /\ batch_stats'.state_changes_eliminated =
                       batch_stats.state_changes_eliminated + 1
                /\ commands' = commands
                /\ batch_stats'.total_commands = batch_stats.total_commands
                /\ gl_context' = <<>> )
        /\ op'.name = "execute"
           => LET IsViewportOrScissor(c) == c.call \in {"apply_viewport", "apply_scissor_rect"}
              IN SelectSeq(gl_context', IsViewportOrScissor)
                    = ReplayedStates(commands, {"Viewport", "Scissor"}) ]_vars

\* C15 witness: the second of two identical state_change calls was dropped, the
\* command of the first being the last in the queue
C15_Witness ==
    /\ op.name = "state_change"
    /\ pushed = <<>>
    /\ batch_stats.state_changes_eliminated = 1
    /\ commands # <<>>
    /\ commands[Len(commands)] = StateChange(op.state_type)

\* C16: state_change(v) is dropped only when v equals the value of the most
\* recently recorded StateChange command of v's category, the pipeline
\* StateChanges recorded by draw_elements included.  (Stated for the commands
\* still in the queue.)
C16_DroppedOnlyIfLastRecorded ==
    [][ (op'.name = "state_change" /\ pushed' = <<>>)
        => LET same == {i \in 1 .. Len(commands) :
                          /\ commands[i].tag = "StateChange"
                          /\ commands[i].state_type.kind = op'.state_type.kind}
           IN same # {} => commands[SetMax(same)].state_type = op'.state_type ]_vars

\* the call execute makes to replay a non-draw command
ReplayOf(c) ==
    CASE c.tag = "StateChange" -> execute_state_change(c.state_type)
      [] c.tag = "BeginPass" -> execute_begin_pass(c.pass, c.action)
      [] c.tag = "EndPass" -> execute_end_pass
      [] c.tag = "ApplyUniforms" -> execute_apply_uniforms(c.data)

\* C17: no recorded command is dropped unexecuted by a recording call or by
\* execute: a recording call leaves the queue as it was plus what it recorded
\* (also when it reaches the ceiling), and execute replays every pending
\* non-draw command and issues a draw if there is a pending draw.
C17_NothingDroppedUnexecuted ==
    [][ /\ op'.name \in RecordingCalls => commands' = commands \o pushed'
        /\ op'.name = "execute"
           => ( /\ \A i \in 1 .. Len(commands) :
                      IsNonDraw(commands[i])
                      => \E j \in 1 .. Len(gl_context') : gl_context'[j] = ReplayOf(commands[i])
                /\ DrawsOf(commands) # {}
                   => \E j \in 1 .. Len(gl_context') : gl_context'[j].call = "draw" ) ]_vars

\* C18: execute replays the recorded StateChange, BeginPass, EndPass and
\* ApplyUniforms commands each exactly once, in recording order, before any
\* draw; what follows is, for every batch key in turn, one apply_pipeline, one
\* apply_bindings and then that group's draws.
C18_ReplayThenDraws ==
    [][ op'.name = "execute"
        => LET recorded == SelectSeq(commands, IsNonDraw)
               n == Len(recorded)
               keys == {DrawKey(commands[i]) : i \in DrawsOf(commands)}
               after == {j \in 1 .. Len(gl_context') : j > n}
           IN /\ Len(gl_context') >= n
              /\ \A i \in 1 .. n : gl_context'[i] = ReplayOf(recorded[i])
              /\ \A j \in after :
                     gl_context'[j].call \in {"apply_pipeline", "apply_bindings", "draw"}
              /\ DrawsOf(commands) # {} => gl_context'[n + 1].call = "apply_pipeline"
              /\ \A j \in after :
                     gl_context'[j].call = "apply_pipeline"
                     => ( /\ j + 2 <= Len(gl_context')
                          /\ gl_context'[j + 1].call = "apply_bindings"
                          /\ gl_context'[j + 2].call = "draw" )
              /\ \A j \in after :
                     gl_context'[j].call = "apply_bindings"
                     => gl_context'[j - 1].call = "apply_pipeline"
              /\ Cardinality({j \in after : gl_context'[j].call = "apply_pipeline"})
                    = Cardinality(keys) ]_vars

\* C18 witness: an execute has replayed a begin_pass and a pipeline change and
\* then issued a draw
C18_Witness ==
    /\ op.name = "execute"
    /\ Len(gl_context) >= 5
    /\ gl_context[1].call = "begin_pass"
    /\ gl_context[2].call = "apply_pipeline"
    /\ gl_context[Len(gl_context)].call = "draw"

\* C19: every DrawElements command with pipeline P in the queue has a pipeline
\* StateChange or BeginPass before it in the queue, and the nearest one is
\* StateChange{Pipeline P}.
C19_DrawFollowsItsPipeline ==
    \A i \in DrawsOf(commands) :
       LET marks == {j \in 1 .. i - 1 :
                       \/ commands[j].tag = "BeginPass"
                       \/ /\ commands[j].tag = "StateChange"
                          /\ commands[j].state_type.kind = "Pipeline"}
       IN /\ marks # {}
          /\ commands[SetMax(marks)] = StateChange(PipelineChange(commands[i].pipeline))

\* begin_pass records one BeginPass and empties the tracked pipeline and bindings
BeginPassResets ==
    op'.name = "begin_pass"
    => ( /\ pushed' = <<BeginPass(op'.pass, op'.action)>>
         /\ current_pipeline' = None
         /\ current_bindings' = None )

\* the draw_elements that follows a begin_pass records the pipeline change and
\* then its draw
DrawAfterBeginPass ==
    (op.name = "begin_pass" /\ op'.name = "draw_elements")
    => pushed' = << StateChange(PipelineChange(op'.pipeline)),
                    DrawElements(op'.pipeline, CommandBindingsFrom(op'.bindings), op'.params) >>

\* C20 as stated: begin_pass records one BeginPass and resets the tracked
\* pipeline and bindings, the next draw_elements records a pipeline StateChange
\* before its draw, and end_pass records one EndPass and changes no tracking
\* state.
C20_EndPassKeepsTracking ==
    [][ /\ BeginPassResets
        /\ DrawAfterBeginPass
        /\ op'.name = "end_pass"
           => ( /\ pushed' = <<EndPass>>
                /\ UNCHANGED <<current_pipeline, current_bindings, last_state_changes>> ) ]_vars

\* C20, amended: as above, except that an end_pass whose command brings the
\* queue to the ceiling flushes, which empties the tracked pipeline and
\* bindings; below the ceiling end_pass changes no tracking state.
C20_PassBoundaries ==
    [][ /\ BeginPassResets
        /\ DrawAfterBeginPass
        /\ op'.name = "end_pass"
           => ( /\ pushed' = <<EndPass>>
                /\ last_state_changes' = last_state_changes
                /\ IF Len(commands) + 1 >= max_batch_size
                   THEN current_pipeline' = None /\ current_bindings' = None
                   ELSE UNCHANGED <<current_pipeline, current_bindings>> ) ]_vars

\* C20 witness: the draw after a begin_pass recorded a change to the pipeline
\* that was already the last one requested before the pass
C20_Witness ==
    /\ op.name = "draw_elements"
    /\ Len(commands) = 3
    /\ commands[1].tag = "BeginPass"
    /\ commands[2] = StateChange(PipelineChange(op.pipeline))
    /\ IsDraw(commands[3])
    /\ IsRedundant(PipelineChange(op.pipeline))

\* C21: after every recording call the queue is shorter than the ceiling; the
\* append that brings it to the ceiling flushes: flush_count + 1, batch groups
\* emptied, the queue left with only what the call recorded after that append,
\* and, when that append is the call's last, an empty queue and no tracked
\* pipeline or bindings.  A call that stays below the ceiling does not flush.
C21_QueueBelowCeiling ==
    [][ op'.name \in RecordingCalls
        => LET room == max_batch_size - Len(commands)
           IN /\ Len(commands') < max_batch_size
              /\ Len(pushed') < room
                 => ( /\ commands' = commands \o pushed'
                      /\ batch_stats'.flush_count = batch_stats.flush_count )
              /\ Len(pushed') >= room
                 => ( /\ batch_stats'.flush_count = batch_stats.flush_count + 1
                      /\ batch_groups' = <<>>
                      /\ commands' = SubSeq(pushed', room + 1, Len(pushed')) )
              /\ Len(pushed') = room
                 => ( /\ commands' = <<>>
                      /\ current_pipeline' = None
                      /\ current_bindings' = None ) ]_vars

\* C21 witness: a recording call has filled the queue to the ceiling for the
\* first time and left it empty
C21_Witness ==
    /\ op.name \in RecordingCalls
    /\ pushed # <<>>
    /\ commands = <<>>
    /\ batch_stats.flush_count = 1
    /\ batch_stats.total_commands = max_batch_size

\* C22: flush() makes no call on the GlContext, empties the queue and the batch
\* groups, empties the tracked pipeline and bindings and increments flush_count
\* by one; total_commands, batched_commands, draw_calls_saved and
\* state_changes_eliminated keep their values.
C22_FlushDiscards ==
    [][ op'.name = "flush"
        => ( /\ gl_context' = <<>>
             /\ pushed' = <<>>
             /\ commands' = <<>>
             /\ batch_groups' = <<>>
             /\ current_pipeline' = None
             /\ current_bindings' = None
             /\ batch_stats'.flush_count = batch_stats.flush_count + 1
             /\ batch_stats'.total_commands = batch_stats.total_commands
             /\ batch_stats'.batched_commands = batch_stats.batched_commands
             /\ batch_stats'.draw_calls_saved = batch_stats.draw_calls_saved
             /\ batch_stats'.state_changes_eliminated =
                    batch_stats.state_changes_eliminated ) ]_vars

\* C22 witness: a flush has discarded recorded commands that had been grouped
\* and were never executed
C22_Witness ==
    /\ op.name = "flush"
    /\ batch_stats.flush_count = 1
    /\ batch_stats.total_commands > 0
    /\ batch_stats.total_commands < max_batch_size
    /\ batch_stats.batched_commands > 0

\* C23: execute on a non-empty queue leaves the queue and the batch groups
\* empty, no tracked pipeline or bindings, and flush_count one higher; execute
\* on an empty queue returns Ok and changes nothing: no GlContext call, no
\* statistic, no tracking state.
C23_ExecuteClears ==
    [][ op'.name = "execute"
        => ( /\ ret' = Ok("unit")
             /\ commands # <<>>
                => ( /\ commands' = <<>>
                     /\ batch_groups' = <<>>
                     /\ current_pipeline' = None
                     /\ current_bindings' = None
                     /\ batch_stats'.flush_count = batch_stats.flush_count + 1 )
             /\ commands = <<>>
                => ( /\ gl_context' = <<>>
                     /\ UNCHANGED <<commands, batch_groups, batch_stats, current_pipeline,
                                    current_bindings, last_state_changes>> ) ) ]_vars

\* C23 witness: an execute has issued a queue that held a draw after a pipeline
\* had been tracked
C23_Witness ==
    /\ op.name = "execute"
    /\ \E j \in 1 .. Len(gl_context) : gl_context[j].call = "draw"
    /\ commands = <<>>
    /\ current_pipeline = None
    /\ batch_stats.flush_count = 1

\* C24: twenty draws recorded into a fresh CommandBuffer, alternating between two
\* binding sets and sharing one pipeline, primitive type and index type, leave
\* one pipeline StateChange followed by the twenty DrawElements in the queue and
\* eliminate no state change; optimize_batches then builds exactly two groups of
\* ten draws each and counts 18 draws as batch-compatible, a compatibility rate
\* of 18 over the 21 commands recorded.
C24_AlternatingFrame ==
    LET n == Len(commands) - 1
    IN /\ batch_stats.state_changes_eliminated = 0
       /\ batch_stats.flush_count = 0
       /\ op.name \in {"draw_elements", "optimize_batches"} =>
             /\ commands[1] = StateChange(PipelineChange(commands[2].pipeline))
             /\ batch_stats.total_commands = n + 1
             /\ \A i \in 2 .. Len(commands) :
                   /\ IsDraw(commands[i])
                   /\ commands[i].pipeline = commands[2].pipeline
                   /\ commands[i].params = commands[2].params
                   /\ i > 2 => commands[i].bindings # commands[i - 1].bindings
                   /\ i > 3 => commands[i].bindings = commands[i - 2].bindings
       /\ op.name = "optimize_batches" =>
             /\ n = FrameDraws
             /\ Len(batch_groups) = 2
             /\ \A k \in 1 .. 2 : draw_count(batch_groups[k]) = FrameDraws \div 2
             /\ batch_stats.batched_commands = FrameDraws - 2
             /\ batch_stats.compatibility_rate = Percent(FrameDraws - 2, FrameDraws + 1)

\* C24 witness: the frame of twenty alternating draws has been optimized
C24_Witness ==
    /\ op.name = "optimize_batches"
    /\ Cardinality(DrawsOf(commands)) = 20
    /\ Len(batch_groups) = 2
    /\ batch_stats.batched_commands = 18
    /\ batch_stats.compatibility_rate = Percent(18, 21)

-----------------------------------------------------------------------------
(* The State Cache: vocabulary *)

\* the calls of the cache that apply a value to one slot
SlotCalls == {"bind_buffer", "bind_texture", "use_program", "apply_viewport", "apply_scissor"}

\* the native call that applies the value a slot call o asks for
SlotCall(o) ==
    CASE o.name = "bind_buffer" -> <<"glBindBuffer", o.target, o.buffer>>
      [] o.name = "bind_texture" ->
             <<"glBindTexture", IF o.target = 0 THEN GL_TEXTURE_2D ELSE o.target, o.texture>>
      [] o.name = "use_program" -> <<"glUseProgram", o.program>>
      [] o.name = "apply_viewport" -> <<"glViewport">> \o o.rect
      [] o.name = "apply_scissor" -> <<"glScissor">> \o o.rect

Has(log, call) == \E i \in DOMAIN log : log[i] = call

\* C25: on a fresh GlCache the first call of a slot method (bind_buffer on either
\* target, bind_texture on any slot, use_program, apply_viewport, apply_scissor)
\* issues its native call whatever value it asks for, the default cached value
\* included.
C25_FirstCallIssues ==
    [][ cache_calls = 0 /\ cache = GlCacheDefault /\ op'.name \in SlotCalls
        => Has(gl_calls', SlotCall(op')) ]_vars

\* the slot call o asks for the value its slot caches, and the slot is not dirty
AsksCachedValue(c, o) ==
    CASE o.name = "bind_buffer" ->
             /\ CachedBuffer(c, o.target) = o.buffer
             /\ o.target # GL_ARRAY_BUFFER => c.index_type = o.index_type
      [] o.name = "bind_texture" ->
             c.textures[o.slot_index] = CachedTexture(o.target, o.texture)
      [] o.name = "use_program" -> c.current_program = o.program /\ ~c.program_dirty
      [] o.name = "apply_viewport" -> c.viewport = o.rect /\ ~c.viewport_dirty
      [] o.name = "apply_scissor" -> c.scissor = Some(o.rect) /\ ~c.scissor_dirty

\* C26: a slot call that asks for the value its slot already caches, the slot
\* not being dirty, issues no native call at all and leaves the cache unchanged.
C26_CachedValueSuppressed ==
    [][ op'.name \in SlotCalls /\ AsksCachedValue(cache, op')
        => gl_calls' = <<>> /\ cache' = cache ]_vars

\* C27: of two consecutive bind_buffer calls with the same target and handle the
\* second is always suppressed, and the first issues its native bind exactly
\* when the handle differs from the one cached before it: at most one native
\* bind in total, and the cached handle of the target is the requested one
\* afterwards.
C27_SecondBindSuppressed ==
    [][ /\ op.name = "bind_buffer" /\ op'.name = "bind_buffer"
        /\ op'.target = op.target /\ op'.buffer = op.buffer
        => /\ gl_calls' = <<>>
           /\ gl_calls = IF op.found # op.buffer
                         THEN << <<"glBindBuffer", op.target, op.buffer>> >>
                         ELSE <<>>
           /\ Len(gl_calls) + Len(gl_calls') <= 1
           /\ CachedBuffer(cache, op.target) = op.buffer
           /\ CachedBuffer(cache', op.target) = op.buffer
           /\ NativeBuffer(gl_state', op.target) = op.buffer ]_vars

\* C27 witness: the second of two identical binds of a buffer found it cached
\* and issued nothing, the first having issued the only native bind
C27_Witness ==
    /\ cache_calls = 2
    /\ op.name = "bind_buffer" /\ op.buffer # 0 /\ op.found = op.buffer
    /\ gl_calls = <<>>
    /\ profiler.stats.buffer_binds = 1
    /\ NativeBuffer(gl_state, op.target) = op.buffer

\* C28: a store_*_binding, any number of binds on that target or slot, and the
\* restore_*_binding leave the cached and the native binding of the target or
\* slot as they were when stored, also when nothing (handle 0) was bound then.
C28_RestoreReturnsStored ==
    [][ client # None =>
          /\ op'.name = "restore_buffer_binding" /\ client.val.on = <<"buffer", op'.target>>
             => /\ CachedBuffer(cache', op'.target) = client.val.cached
                /\ NativeBuffer(gl_state', op'.target) = client.val.native
          /\ op'.name = "restore_texture_binding" /\ client.val.on = <<"texture", op'.slot_index>>
             => LET was == client.val.cached
                    target == IF was.target = 0 THEN GL_TEXTURE_2D ELSE was.target
                IN /\ cache'.textures[op'.slot_index].texture = was.texture
                   /\ gl_state'.textures[op'.slot_index][target] =
                          client.val.native[target] ]_vars

RECURSIVE RecordsFor(_, _)
RecordsFor(log, unit) ==
    IF log = <<>> THEN <<>>
    ELSE LET c == Head(log)
         IN IF c[1] = "glActiveTexture" THEN RecordsFor(Tail(log), c[2] - GL_TEXTURE0)
            ELSE IF c[1] = "glBindBuffer"
            THEN << <<"record_buffer_bind", c[2], c[3]>> >> \o RecordsFor(Tail(log), unit)
            ELSE IF c[1] = "glBindTexture"
            THEN << <<"record_texture_bind", unit, c[3]>> >> \o RecordsFor(Tail(log), unit)
            ELSE IF c[1] = "glUseProgram"
            THEN << <<"record_program_use", c[2]>> >> \o RecordsFor(Tail(log), unit)
            ELSE RecordsFor(Tail(log), unit)

\* how many calls of one name a log holds
CountOf(log, name) == Cardinality({i \in DOMAIN log : log[i][1] = name})

\* C30: the cache tells the profiler of exactly the binds and uses it issues: each
\* glBindBuffer, glBindTexture and glUseProgram comes with one record_* call of
\* the same target or slot and handle, a suppressed call with none; so with the
\* profiler enabled buffer_binds, texture_binds and program_uses each grow by
\* the number of native binds or uses of their kind, and their sum by the number
\* of all of them.
C30_RecordsMatchIssued ==
    [][ cache_calls' # cache_calls =>
          /\ records' = RecordsFor(gl_calls', gl_state.active_texture - GL_TEXTURE0)
          /\ profiler.enabled =>
                LET before == profiler.stats
                    after == profiler'.stats
                IN /\ after.buffer_binds = before.buffer_binds + CountOf(gl_calls', "glBindBuffer")
                   /\ after.texture_binds = before.texture_binds + CountOf(gl_calls', "glBindTexture")
                   /\ after.program_uses = before.program_uses + CountOf(gl_calls', "glUseProgram")
                   /\ after.buffer_binds + after.texture_binds + after.program_uses
                        = before.buffer_binds + before.texture_binds + before.program_uses
                          + Len(records') ]_vars

\* C30 witness: of four calls three have issued a bind, one on each buffer
\* target and the last one on a texture slot, each recorded by the profiler
C30_Witness ==
    /\ cache_calls = 4
    /\ profiler.enabled
    /\ op.name = "bind_texture"
    /\ records = << <<"record_texture_bind", op.slot_index, op.texture>> >>
    /\ Has(gl_calls, SlotCall(op))
    /\ profiler.stats.buffer_binds = 2 /\ profiler.stats.texture_binds = 1
    /\ profiler.stats.total_calls = 3
    /\ gl_state.array_buffer # 0 /\ gl_state.element_array_buffer # 0

-----------------------------------------------------------------------------
(* The profiler: vocabulary *)

RecordCalls == {"record_buffer_bind", "record_texture_bind", "record_program_use"}

\* the tracker holds the value of the record call o as the last one seen for
\* its buffer target, texture slot or program
LastSeen(tracker, o) ==
    CASE o.name = "record_buffer_bind" ->
             IF o.target = GL_ARRAY_BUFFER
             THEN tracker.current_array_buffer = Some(o.buffer)
             ELSE IF o.target = GL_ELEMENT_ARRAY_BUFFER
             THEN tracker.current_element_buffer = Some(o.buffer)
             ELSE FALSE
      [] o.name = "record_texture_bind" ->
             /\ o.slot \in DOMAIN tracker.current_textures
             /\ tracker.current_textures[o.slot] = o.texture
      [] o.name = "record_program_use" -> tracker.current_program = Some(o.program)

\* the counter of the category of a record call, and its redundant counter
CategoryOf(o) ==
    CASE o.name = "record_buffer_bind" -> <<"buffer_binds", "redundant_buffer_binds">>
      [] o.name = "record_texture_bind" -> <<"texture_binds", "redundant_texture_binds">>
      [] o.name = "record_program_use" -> <<"program_uses", "redundant_program_uses">>

CounterNames == DOMAIN StateChangeStatsDefault

TotalsAddUp(st) ==
    /\ st.total_calls = st.buffer_binds + st.texture_binds + st.program_uses
    /\ st.redundant_calls = st.redundant_buffer_binds + st.redundant_texture_binds
                               + st.redundant_program_uses
    /\ st.redundant_calls <= st.total_calls

\* C31: with the profiler enabled every record_* call adds one to total_calls
\* and to the counter of its category, and adds one to redundant_calls and to
\* the redundant counter of its category exactly when its value is the last
\* one the profiler saw for that buffer target, texture slot or program (the
\* value it then remembers); no other counter moves.  So total_calls is always
\* the sum of the three categories, and redundant_calls the sum of the three
\* redundant counters, at most total_calls.
C31_RecordsCounted ==
    [][ /\ TotalsAddUp(profiler'.stats)
        /\ op'.name \in RecordCalls /\ profiler.enabled
           => LET before == profiler.stats
                  after == profiler'.stats
                  cat == CategoryOf(op')
                  red == IF LastSeen(profiler.tracker, op') THEN 1 ELSE 0
                  known == op'.name = "record_buffer_bind" => op'.target \in BufferTargets
              IN /\ after.total_calls = before.total_calls + 1
                 /\ after[cat[1]] = before[cat[1]] + 1
                 /\ after.redundant_calls = before.redundant_calls + red
                 /\ after[cat[2]] = before[cat[2]] + red
                 /\ \A n \in CounterNames \ {"total_calls", "redundant_calls", cat[1], cat[2]} :
                       after[n] = before[n]
                 /\ known => LastSeen(profiler'.tracker, op') ]_vars

\* C31 witness: a record of the value last seen has been counted redundant,
\* after records that were not
C31_Witness ==
    /\ op.name \in RecordCalls
    /\ profiler.enabled
    /\ profiler.stats.total_calls = 3
    /\ profiler.stats.redundant_calls = 1
    /\ LastSeen(profiler.tracker, op)

\* every record call the call sites make
RecordOps ==
    { [name |-> "record_buffer_bind", target |-> b[1], buffer |-> b[2]] :
          b \in RecordBufferInputs }
      \cup { [name |-> "record_texture_bind", slot |-> t[1], texture |-> t[2]] :
                 t \in RecordTextureInputs }
      \cup { [name |-> "record_program_use", program |-> program] :
                 program \in ProgramInputs }

\* C33: enable and disable leave every counter and every last-seen value as
\* they are; while the profiler is disabled a record_* call changes neither;
\* reset zeroes every counter and forgets every last-seen value, so that the
\* first record after it is never counted redundant, and leaves the enabled
\* flag as it is.
C33_SwitchesKeepTotals ==
    [][ /\ op'.name \in {"enable_profiling", "disable_profiling"}
           => /\ profiler'.stats = profiler.stats
              /\ profiler'.tracker = profiler.tracker
              /\ profiler'.enabled = (op'.name = "enable_profiling")
        /\ op'.name \in RecordCalls /\ ~profiler.enabled
           => profiler' = profiler
        /\ op'.name = "reset_profiling"
           => /\ \A n \in CounterNames : profiler'.stats[n] = 0
              /\ \A o \in RecordOps : ~LastSeen(profiler'.tracker, o)
              /\ profiler'.enabled = profiler.enabled
        /\ op.name = "reset_profiling" /\ op'.name \in RecordCalls
           => profiler'.stats.redundant_calls = 0 ]_vars

\* C33 witness: a record made while the profiler was disabled, of a value other
\* than the last one seen, has left the counters and the last-seen value alone
C33_Witness ==
    /\ op \in RecordOps
    /\ ~profiler.enabled
    /\ profiler.stats.total_calls = 2
    /\ op.name = "record_program_use"
    /\ profiler.tracker.current_program = Some(1 - op.program)

\* C32: when every record reaches the profiler through one GlCache, after any
\* sequence of cache calls and of enable / disable calls redundant_calls and the
\* three redundant counters are 0.
C32_NoRedundantThroughCache ==
    /\ profiler.stats.redundant_calls = 0
    /\ profiler.stats.redundant_buffer_binds = 0
    /\ profiler.stats.redundant_texture_binds = 0
    /\ profiler.stats.redundant_program_uses = 0

\* the record_* calls the threads made while the profiler was enabled
RecordsCounted == SeqSum([t \in 1 .. MaxThreads |-> threads[t].counted])

\* C34: there is one profiler for the process.  Once PROFILER holds an
\* instance no step replaces it, and the steps of init_profiler leave its
\* data alone; every handle a thread got from get_profiler is that instance,
\* also when several threads made the first access together; and no update
\* made under the lock is lost: total_calls is the number of record_* calls
\* the threads made while the profiler was enabled.
C34_OneProfiler ==
    [][ /\ PROFILER # None =>
             /\ PROFILER' = PROFILER
             /\ op'.name \in {"new", "set"} =>
                    arcs'[PROFILER.val].data = arcs[PROFILER.val].data
        /\ \A t \in Threads : threads'[t].arc # 0 => PROFILER' = Some(threads'[t].arc)
        /\ IF PROFILER' = None THEN RecordsCounted' = 0
           ELSE arcs'[PROFILER'.val].data.stats.total_calls = RecordsCounted' ]_vars

\* a thread is about to set an instance of its own while another thread's
\* record is already counted in the installed one, and both threads record
C34_Witness ==
    /\ PROFILER # None
    /\ \E t \in Threads : threads[t].pc = "set" /\ threads[t].call = "record"
    /\ \E u \in Threads : threads[u].counted > 0
    /\ arcs[PROFILER.val].data.stats.total_calls > 0

(* The grouping of a command queue, stated without the loop of               *)
(* optimize_batches: one group per key, in the order in which the keys first *)
(* occur among the draws, each holding the draws of its key in queue order.  *)

DrawSeq(cmds) == SelectSeq(cmds, IsDraw)

\* the positions in ds where a key occurs for the first time
FirstOfKey(ds) == {i \in 1 .. Len(ds) : \A j \in 1 .. (i - 1) : DrawKey(ds[j]) # DrawKey(ds[i])}

NthOf(S, n) == CHOOSE i \in S : Cardinality({j \in S : j < i}) = n - 1

GroupsOf(cmds) ==
    LET ds == DrawSeq(cmds)
        firsts == FirstOfKey(ds)
    IN [n \in 1 .. Cardinality(firsts) |->
          LET f == ds[NthOf(firsts, n)]
              SameKey(c) == DrawKey(c) = DrawKey(f)
              mine == SelectSeq(ds, SameKey)
          IN [ pipeline |-> f.pipeline, bindings |-> f.bindings,
               primitive_type |-> f.params.primitive_type,
               index_type |-> f.params.index_type,
               draws |-> [k \in 1 .. Len(mine) |->
                            [ base_element |-> mine[k].params.base_element,
                              num_elements |-> mine[k].params.num_elements,
                              num_instances |-> mine[k].params.num_instances ]] ]]

\* C35: after optimize_batches the batch groups partition the pending draws:
\* one group per (pipeline, bindings, primitive type, index type), in the
\* order in which the keys first occur; every recorded draw is in the group of
\* its key exactly once, with its own base element, element count and
\* instance count, in recording order; the other commands contribute nothing;
\* and the command queue is left as it was.
C35_GroupsPartitionDraws ==
    [][ op'.name = "optimize_batches" =>
          /\ commands' = commands
          /\ batch_groups' = GroupsOf(commands)
          /\ SeqSum([i \in 1 .. Len(batch_groups') |-> Len(batch_groups'[i].draws)])
                = Len(DrawSeq(commands)) ]_vars

\* optimize_batches has grouped a queue in which two draws of one key are
\* separated by a draw of another key, and which holds a non-draw command
C35_Witness ==
    /\ op.name = "optimize_batches"
    /\ \E i, j, k \in 1 .. Len(commands) :
          /\ i < j /\ j < k
          /\ IsDraw(commands[i]) /\ IsDraw(commands[j]) /\ IsDraw(commands[k])
          /\ DrawKey(commands[i]) = DrawKey(commands[k])
          /\ DrawKey(commands[i]) # DrawKey(commands[j])
          /\ commands[i].params # commands[k].params
    /\ \E i \in 1 .. Len(commands) : ~IsDraw(commands[i])
    /\ Len(batch_groups) = 2

\* the draws of a group all have the element count of the first and instance count 1
SameShape(group) ==
    \A i \in 1 .. Len(group.draws) :
        /\ group.draws[i].num_elements = group.draws[1].num_elements
        /\ group.draws[i].num_instances = 1

IsDrawOf(call, draw) ==
    /\ call.call = "draw"
    /\ call.base_element = draw.base_element
    /\ call.num_elements = draw.num_elements
    /\ call.num_instances = draw.num_instances

\* from position at + 1 on, log holds the calls of the groups i, i + 1, ...: for
\* each group apply_pipeline, apply_bindings and its draw or draws
RECURSIVE IssuedPerGroup(_, _, _, _)
IssuedPerGroup(log, at, groups, i) ==
    IF i > Len(groups) THEN at = Len(log)
    ELSE LET group == groups[i]
             n == Len(group.draws)
             len == IF n > 1 /\ ~SameShape(group) THEN 2 + n ELSE 3
         IN /\ Len(log) >= at + len
            /\ log[at + 1].call = "apply_pipeline"
            /\ log[at + 1].pipeline = group.pipeline
            /\ log[at + 2].call = "apply_bindings"
            /\ log[at + 2].bindings.vertex_buffers = group.bindings.vertex_buffers
            /\ log[at + 2].bindings.index_buffer = group.bindings.index_buffer
            /\ log[at + 2].bindings.images = group.bindings.images
            /\ IF n = 1 THEN IsDrawOf(log[at + 3], group.draws[1])
               ELSE IF SameShape(group)
               THEN /\ log[at + 3].call = "draw"
                    /\ log[at + 3].num_elements = group.draws[1].num_elements
                    /\ log[at + 3].num_instances
                         = (IF n <= MAX_INSTANCES_PER_DRAW THEN n ELSE MAX_INSTANCES_PER_DRAW)
               ELSE \A k \in 1 .. n : IsDrawOf(log[at + 2 + k], group.draws[k])
            /\ IssuedPerGroup(log, at + len, groups, i + 1)

\* C36: at execute, after the replay of the other commands, every batch group
\* gets its pipeline and its bindings applied exactly once, followed by: its
\* draw, for a group of one; one instanced draw of min(number of draws,
\* 16384) instances, for a larger group whose draws all have the same element
\* count and instance count 1; each of its draws once and in order, for any
\* other group.
C36_GroupIssuedOnce ==
    [][ op'.name = "execute" /\ commands # <<>> =>
          IssuedPerGroup(gl_context', Len(commands) - Len(DrawSeq(commands)),
                         GroupsOf(commands), 1) ]_vars

\* an execute has issued a group of one draw, a group merged into one
\* instanced draw and a group of two draws that cannot be merged
C36_Witness ==
    /\ op.name = "execute"
    /\ \E i \in 1 .. Len(gl_context) :
          /\ gl_context[i].call = "draw"
          /\ gl_context[i].num_elements = 6 /\ gl_context[i].num_instances = 2
    /\ \E i \in 1 .. (Len(gl_context) - 1) :
          /\ gl_context[i].call = "draw" /\ gl_context[i].num_elements = 3
          /\ gl_context[i + 1].call = "draw" /\ gl_context[i + 1].num_elements = 3
    /\ \E i \in 1 .. Len(gl_context) :
          /\ gl_context[i].call = "draw"
          /\ gl_context[i].num_elements = 6 /\ gl_context[i].num_instances = 1

\* the last call of the given kind that log holds before position k (0: none)
LastBefore(log, k, kind) ==
    IF \E i \in 1 .. (k - 1) : log[i].call = kind
    THEN SetMax({i \in 1 .. (k - 1) : log[i].call = kind})
    ELSE 0

\* log holds a native draw of the command's own range of elements, issued
\* under the command's pipeline and bindings
DrawnAsRecorded(log, c) ==
    \E k \in 1 .. Len(log) :
        /\ log[k].call = "draw"
        /\ log[k].base_element = c.params.base_element
        /\ log[k].num_elements = c.params.num_elements
        /\ LET p == LastBefore(log, k, "apply_pipeline")
               b == LastBefore(log, k, "apply_bindings")
           IN /\ p # 0 /\ log[p].pipeline = c.pipeline
              /\ b # 0
              /\ log[b].bindings.vertex_buffers = c.bindings.vertex_buffers
              /\ log[b].bindings.index_buffer = c.bindings.index_buffer
              /\ log[b].bindings.images = c.bindings.images

\* C37: batched execution draws what an unbatched replay would draw: for
\* every DrawElements in the queue, execute makes the native layer draw that
\* command's own base_element / num_elements range under its pipeline and
\* bindings (so the draws merged into one instanced draw all have the
\* base_element of the draw that is issued).
C37_EveryDrawIssued ==
    [][ op'.name = "execute" =>
          \A i \in 1 .. Len(commands) :
              IsDraw(commands[i]) => DrawnAsRecorded(gl_context', commands[i]) ]_vars

\* the queue holds no StateChange of the category of state_type after its
\* last BeginPass: no state_change of that category was recorded since the
\* last boundary (a flush or an execute empties the queue)
FirstSinceBoundary(state_type) ==
    LET b == IF \E i \in 1 .. Len(commands) : commands[i].tag = "BeginPass"
             THEN SetMax({i \in 1 .. Len(commands) : commands[i].tag = "BeginPass"})
             ELSE 0
    IN \A i \in (b + 1) .. Len(commands) :
          commands[i].tag = "StateChange" =>
              state_key(commands[i].state_type) # state_key(state_type)

\* C38: state recorded before a boundary never causes an elimination after
\* it: after begin_pass, flush() or execute(), the first state_change of a
\* category is recorded, not dropped, also when it asks for the value that
\* was recorded before the boundary.
C38_RecordedAfterBoundary ==
    [][ op'.name = "state_change" /\ FirstSinceBoundary(op'.state_type) =>
          \E i \in 1 .. Len(pushed') : pushed'[i] = StateChange(op'.state_type) ]_vars

\* bind_buffer made no native call
Suppressed == \A i \in 1 .. Len(gl_calls) : gl_calls[i][1] # "glBindBuffer"

\* C39: the cache stays coherent with the native layer when the pool shares
\* its context: whenever bind_buffer suppresses the native call, the native
\* binding of that target already is the requested handle, whatever
\* acquire_buffer calls came in between.
C39_SuppressedMeansBound ==
    [][ op'.name = "bind_buffer" /\ Suppressed' =>
          NativeBuffer(gl_state, op'.target) = op'.buffer ]_vars

\* the bucket sizes of the active buffers, added up
ActiveBytes ==
    LET RECURSIVE sum(_)
        sum(S) == IF S = {} THEN 0
                  ELSE LET h == CHOOSE x \in S : TRUE
                       IN active_buffers[h].size + sum(S \ {h})
    IN sum(DOMAIN active_buffers)

StatsMatchContents ==
    /\ stats.buffers_in_use = Cardinality(DOMAIN active_buffers)
    /\ stats.buffers_available = Len(Pooled)
    /\ stats.total_buffers = stats.buffers_in_use + stats.buffers_available
    /\ stats.memory_usage_bytes = PooledBytes(Pooled) + ActiveBytes

\* C40: the statistics match what the pool holds, in every reachable state:
\* buffers_in_use is the size of the active set, buffers_available the number
\* of free-list entries, total_buffers their sum, memory_usage_bytes the sum
\* of the bucket sizes of all tracked buffers; and cache_hits, cache_misses
\* and pool_allocations never decrease.
C40_StatsMatchContents ==
    [][ /\ StatsMatchContents
        /\ StatsMatchContents'
        /\ stats'.cache_hits >= stats.cache_hits
        /\ stats'.cache_misses >= stats.cache_misses
        /\ stats'.pool_allocations >= stats.pool_allocations ]_vars

\* a pool with an active buffer and a free one, after a delete (a release into
\* a full list, a cleanup or a clear_all) and after hits and misses
C40_Witness ==
    /\ Cardinality(DOMAIN active_buffers) >= 1
    /\ Len(Pooled) >= 1
    /\ stats.pool_allocations > stats.total_buffers
    /\ stats.cache_hits >= 1
    /\ stats.memory_usage_bytes > 0

====
